---- MODULE Spec2Model ----
(***************************************************************************)
(* A model of devlongs/mev-inspector.                                      *)
(*                                                                         *)
(*   Spec        the driver: Inspector.Start, its select loop, the two     *)
(*               tickers, the cancellation signal, processNewBlocks,       *)
(*               processBlockRange and Decoder.GetAllSwapLogs.             *)
(*   SpecLive    Spec with the fairness the scheduling of the code gives.  *)
(*   SpecDecode  one call of the unified Decoder.DecodeSwapLog on a log    *)
(*               drawn from all payloads of the scaled word width.         *)
(*   SpecPool    a decoder instance over its lifetime: batches of          *)
(*               DecodeSwapsForTransaction, the two pool caches and the    *)
(*               metadata calls issued.                                    *)
(*   SpecProtocol one call of a protocol decoder's DecodeSwapLog.          *)
(*   SpecArb     one call of Detector.DetectArbitrage on the swaps of a    *)
(*               transaction, and the IsProfitable query on a finding.     *)
(*   SpecFlow    DetectArbitrage on swaps of every zero / non-zero amount  *)
(*               combination.                                              *)
(*   SpecRetry   one call of a retrying wrapper of eth.Client.             *)
(*   SpecRange   the driver with the loop of processBlockRange taken one   *)
(*               transaction at a time, the output.Stats counters and the  *)
(*               findings handed to the logger.                            *)
(*                                                                         *)
(* uint64 arithmetic is kept modular; the width is scaled from 64 bits to  *)
(* UintBits bits so that the wrap-around cases are inside the state space. *)
(* The 256-bit words of a swap payload are scaled to WordBits bits.        *)
(***************************************************************************)
EXTENDS Integers, Sequences, FiniteSets, TLC

(***************************************************************************)
(* Bounds of the model.                                                    *)
(***************************************************************************)
\* width of the scaled uint64 (lastBlock, fromBlock, toBlock, currentBlock)
UintBits == 3
\* highest chain head the node reports
MaxHead == 4
\* configured batch sizes are 1..MaxBatchSize
MaxBatchSize == 2
\* configured start blocks are 0..MaxStartBlock (0 = start from the head)
MaxStartBlock == 2
\* poll ticks delivered by the block-poll ticker
MaxTicks == 2

Modulus == 2 ^ UintBits
MaxUint == Modulus - 1
Heads == 0 .. MaxHead

Min(a, b) == IF a < b THEN a ELSE b

VARIABLES
    \* ---- configuration (config.InspectorConfig), fixed at construction
    cfg,
    \* ---- Inspector state and the control loop
    pc,            \* position of the single control goroutine
    lastBlock,     \* Inspector.lastBlock, the watermark
    cancelled,     \* ctx.Done() is closed
    tickerC,       \* a tick is waiting in ticker.C (channel of capacity 1)
    statsTickerC,  \* a tick is waiting in statsTicker.C
    startErr,      \* Start returned the startup head-lookup error
    \* ---- locals of processNewBlocks / processBlockRange / GetAllSwapLogs
    currentBlock,
    fromBlock,
    toBlock,
    allLogs,
    \* ---- output.Stats
    blocksProcessed,
    \* ---- history of the run (not program state)
    ticks,         \* poll ticks delivered so far
    inFlight,      \* processNewBlocks invocations begun and not yet returned
    statsActive,   \* a LogStats call has begun and not yet returned
    startHead,     \* head returned by the startup lookup
    firstFrom,     \* lower bound of the first range handed to processBlockRange
    tick,          \* the last poll tick: its pre-tick watermark and its outcome
    cancelMid,     \* the range that was in progress when cancellation arrived
    \* ---- decoder.Decoder and the two protocol decoders
    enabled,       \* Decoder.enableV2 / enableV3 (v2Decoder, v3Decoder non-nil)
    v2PoolCache,   \* uniswapv2.Decoder.poolCache
    v3PoolCache,   \* uniswapv3.Decoder.poolCache
    pcD,           \* position of the decoding call
    inLog,         \* the log handed to DecodeSwapLog
    result,        \* what DecodeSwapLog returned for inLog
    swaps,         \* DecodeSwapsForTransaction's swaps slice
    \* ---- history of the decoder (not program state)
    calls,         \* metadata calls issued, per decoder, pool and selector
    lookup,        \* the last getPoolInfo call: its arguments and its answer
    batch,         \* the running batch: logs visited, logs decoded, indexes used
    \* ---- arbitrage.Detector: DetectArbitrage and IsProfitable
    pcA,           \* position of the DetectArbitrage call
    arbIn,         \* the swaps slice handed to DetectArbitrage
    arbOut,        \* the arbitrages slice it returned
    arbHist,       \* history: the slice as given, the pair groups, the gas data
    \* ---- eth.Client: one call of a retrying wrapper
    retry,         \* the wrapper called, its loop counter, its attempts so far
    \* ---- output.Stats (besides BlocksProcessed) and the loop of processBlockRange
    stats,         \* SwapsDetected, ArbitragesFound, TotalProfitWei, TotalNetProfit
    rng            \* the transactions still to visit, totalSwaps, totalArbitrages,
                   \* and history: what LogSwap and LogArbitrage were handed

driverVars == << cfg, pc, lastBlock, cancelled, tickerC, statsTickerC, startErr,
                 currentBlock, fromBlock, toBlock, allLogs, blocksProcessed,
                 ticks, inFlight, statsActive, startHead, firstFrom, tick,
                 cancelMid >>

decodeVars == << enabled, v2PoolCache, v3PoolCache, pcD, inLog, result, swaps,
                 calls, lookup, batch >>

arbVars == << pcA, arbIn, arbOut, arbHist >>

clientVars == << retry >>

rangeVars == << stats, rng >>

vars == << driverVars, decodeVars, arbVars, clientVars, rangeVars >>

\* what the driver's steps leave alone, what the decoder's steps leave alone,
\* and what the detector's steps leave alone
notDriver == << decodeVars, arbVars, clientVars, rangeVars >>
notDecode == << driverVars, arbVars, clientVars, rangeVars >>
notArb == << driverVars, decodeVars, clientVars, rangeVars >>
notClient == << driverVars, decodeVars, arbVars, rangeVars >>

None == "none"
Unset == [set |-> FALSE, val |-> 0]
Set(v) == [set |-> TRUE, val |-> v]

(***************************************************************************)
(* The chain as the RPC node serves it.  Every block carries one swap log  *)
(* of each protocol; the V3 log precedes the V2 log inside the block, so   *)
(* the concatenation "V2 logs, then V3 logs" is not sorted.                *)
(***************************************************************************)
ProtocolLog(proto, b) ==
    [BlockNumber |-> b, Index |-> IF proto = "uniswap_v3" THEN 0 ELSE 1,
     TxHash |-> b, Protocol |-> proto]

RECURSIVE FilterLogs(_, _, _)
FilterLogs(proto, from, to) ==
    IF from > to THEN << >>
    ELSE << ProtocolLog(proto, from) >> \o FilterLogs(proto, from + 1, to)

\* the less function handed to sort.Slice in GetAllSwapLogs
LogLess(a, b) ==
    IF a.BlockNumber # b.BlockNumber THEN a.BlockNumber < b.BlockNumber
    ELSE a.Index < b.Index

RECURSIVE InsertLog(_, _)
InsertLog(l, s) ==
    IF s = << >> THEN << l >>
    ELSE IF LogLess(l, Head(s)) THEN << l >> \o s
    ELSE << Head(s) >> \o InsertLog(l, Tail(s))

\* GetAllSwapLogs without its sort.Slice
LogsAsFetched(s) == s

RECURSIVE SortLogs(_)
SortLogs(s) ==
    IF s = << >> THEN << >> ELSE InsertLog(Head(s), SortLogs(Tail(s)))

(***************************************************************************)
(* What an RPC wrapper of eth.Client hands back once its retries are over: *)
(* an error, or the node's answer.  A call made on a cancelled context is  *)
(* abandoned and fails.                                                    *)
(***************************************************************************)
RpcErr == [err |-> TRUE, val |-> 0]
RpcOk(v) == [err |-> FALSE, val |-> v]

BlockNumberResults ==
    IF cancelled THEN {RpcErr} ELSE {RpcErr} \cup {RpcOk(h) : h \in Heads}

GetLogsOutcomes == IF cancelled THEN {FALSE} ELSE {TRUE, FALSE}

NoTick == [state |-> None, pre |-> 0, head |-> 0, hasRange |-> FALSE,
           v2Failed |-> FALSE, v3Failed |-> FALSE, completed |-> 0]

Configs ==
    [StartBlock : 0 .. MaxStartBlock, BatchSize : 1 .. MaxBatchSize,
     EnableUniswapV2 : BOOLEAN, EnableUniswapV3 : BOOLEAN,
     OnlyProfitable : BOOLEAN]

DriverInit ==
    /\ cfg \in Configs
    /\ pc = "start"
    /\ lastBlock = 0
    /\ cancelled = FALSE
    /\ tickerC = FALSE
    /\ statsTickerC = FALSE
    /\ startErr = FALSE
    /\ currentBlock = 0
    /\ fromBlock = 0
    /\ toBlock = 0
    /\ allLogs = << >>
    /\ blocksProcessed = 0
    /\ ticks = 0
    /\ inFlight = 0
    /\ statsActive = FALSE
    /\ startHead = Unset
    /\ firstFrom = Unset
    /\ tick = NoTick
    /\ cancelMid = [set |-> FALSE, pre |-> 0, to |-> 0]

locals == << currentBlock, fromBlock, toBlock, allLogs >>
history == << ticks, inFlight, statsActive, startHead, firstFrom, tick, cancelMid >>

(***************************************************************************)
(* Environment: the signal handler's cancel() and the two tickers.         *)
(***************************************************************************)
InRange == pc \in {"gasl_v2", "gasl_v3", "pbr"}

Cancel ==
    /\ ~cancelled
    /\ cancelled' = TRUE
    /\ cancelMid' = IF InRange
                    THEN [set |-> TRUE, pre |-> tick.pre, to |-> toBlock]
                    ELSE cancelMid
    /\ UNCHANGED << notDriver, cfg, pc, lastBlock, tickerC, statsTickerC, startErr, locals,
                    blocksProcessed, ticks, inFlight, statsActive, startHead,
                    firstFrom, tick >>

\* time.Ticker drops a tick when the previous one was not yet received
TickerFire ==
    /\ pc \notin {"start", "stopped"}
    /\ ~tickerC
    /\ ticks < MaxTicks
    /\ tickerC' = TRUE
    /\ ticks' = ticks + 1
    /\ UNCHANGED << notDriver, cfg, pc, lastBlock, cancelled, statsTickerC, startErr, locals,
                    blocksProcessed, inFlight, statsActive, startHead, firstFrom,
                    tick, cancelMid >>

StatsTickerFire ==
    /\ pc \notin {"start", "stopped"}
    /\ ~statsTickerC
    /\ statsTickerC' = TRUE
    /\ UNCHANGED << notDriver, cfg, pc, lastBlock, cancelled, tickerC, startErr, locals,
                    blocksProcessed, history >>

(***************************************************************************)
(* Inspector.Start up to the loop: the startup head lookup and the initial *)
(* watermark.                                                              *)
(***************************************************************************)
InitialWatermarkSaturating(head) ==
    IF cfg.StartBlock > 0 THEN cfg.StartBlock - 1
    ELSE IF head = 0 THEN 0 ELSE head - 1

InitialWatermark(head) ==
    IF cfg.StartBlock > 0 THEN cfg.StartBlock - 1
    ELSE (head - 1) % Modulus

Start ==
    /\ pc = "start"
    /\ \E r \in BlockNumberResults :
         IF r.err
         THEN /\ startErr' = TRUE
              /\ pc' = "stopped"
              /\ UNCHANGED << lastBlock, startHead >>
         ELSE /\ lastBlock' = InitialWatermark(r.val)
              /\ startHead' = Set(r.val)
              /\ pc' = "select"
              /\ UNCHANGED startErr
    /\ UNCHANGED << notDriver, cfg, cancelled, tickerC, statsTickerC, locals, blocksProcessed,
                    ticks, inFlight, statsActive, firstFrom, tick, cancelMid >>

(***************************************************************************)
(* The select statement of the loop.  The goroutine is at "select" only    *)
(* between handlers; Go picks any ready case.                              *)
(***************************************************************************)
LoopIdle == pc = "select"

SelectDone ==
    /\ LoopIdle
    /\ cancelled
    /\ pc' = "stopped"
    /\ UNCHANGED << notDriver, cfg, lastBlock, cancelled, tickerC, statsTickerC, startErr,
                    locals, blocksProcessed, history >>

SelectStats ==
    /\ LoopIdle
    /\ statsTickerC
    /\ statsTickerC' = FALSE
    /\ statsActive' = TRUE
    /\ pc' = "stats"
    /\ UNCHANGED << notDriver, cfg, lastBlock, cancelled, tickerC, startErr, locals,
                    blocksProcessed, ticks, inFlight, startHead, firstFrom, tick,
                    cancelMid >>

\* a LogStats that starts the counters over after reporting them
LogStatsResetting ==
    /\ pc = "stats"
    /\ statsActive' = FALSE
    /\ pc' = "select"
    /\ stats' = [stats EXCEPT !.SwapsDetected = 0, !.ArbitragesFound = 0]
    /\ UNCHANGED << decodeVars, arbVars, clientVars, rng,
                    cfg, lastBlock, cancelled, tickerC, statsTickerC, startErr,
                    locals, blocksProcessed, ticks, inFlight, startHead, firstFrom,
                    tick, cancelMid >>

\* Logger.LogStats reads the counters and writes a log line
LogStats ==
    /\ pc = "stats"
    /\ statsActive' = FALSE
    /\ pc' = "select"
    /\ UNCHANGED << notDriver, cfg, lastBlock, cancelled, tickerC, statsTickerC, startErr,
                    locals, blocksProcessed, ticks, inFlight, startHead, firstFrom,
                    tick, cancelMid >>

SelectTickerWhen(ready) ==
    /\ ready
    /\ tickerC
    /\ tickerC' = FALSE
    /\ inFlight' = inFlight + 1
    /\ tick' = [NoTick EXCEPT !.state = "running", !.pre = lastBlock]
    /\ pc' = "pnb_head"
    /\ UNCHANGED << notDriver, cfg, lastBlock, cancelled, statsTickerC, startErr, locals,
                    blocksProcessed, ticks, statsActive, startHead, firstFrom,
                    cancelMid >>

SelectTickerUnguarded == SelectTickerWhen(pc \notin {"start", "stopped"})

SelectTicker == SelectTickerWhen(LoopIdle)

(***************************************************************************)
(* Inspector.processNewBlocks.  It blocks in the head lookup and in the    *)
(* log fetches; the cancellation signal and the tickers may act between    *)
(* these steps.                                                            *)
(***************************************************************************)
\* toBlock as lines 120-123 compute it; currentBlock >= fromBlock here
\* the upper end taken from the batch size alone, whatever the head is
RangeUpperPastHead(from, cur) == (from + cfg.BatchSize - 1) % Modulus

RangeUpper(from, cur) ==
    IF cur - from > cfg.BatchSize
    THEN (from + cfg.BatchSize - 1) % Modulus
    ELSE cur

\* processNewBlocks returns to the loop (which reports an error, if any)
ReturnToLoop(state) ==
    /\ pc' = "select"
    /\ inFlight' = inFlight - 1
    /\ tick' = [tick EXCEPT !.state = state]

ProcessNewBlocksHead ==
    /\ pc = "pnb_head"
    /\ \E r \in BlockNumberResults :
         IF r.err
         THEN /\ ReturnToLoop("err")
              /\ UNCHANGED << locals, firstFrom >>
         ELSE LET from == (lastBlock + 1) % Modulus IN
              /\ currentBlock' = r.val
              /\ fromBlock' = from
              /\ IF r.val < from
                 THEN /\ ReturnToLoop("noop")
                      /\ UNCHANGED << toBlock, allLogs, firstFrom >>
                 ELSE /\ toBlock' = RangeUpper(from, r.val)
                      /\ allLogs' = << >>
                      /\ firstFrom' = IF firstFrom.set THEN firstFrom ELSE Set(from)
                      /\ tick' = [tick EXCEPT !.hasRange = TRUE, !.head = r.val]
                      /\ pc' = "gasl_v2"
                      /\ UNCHANGED inFlight
    /\ UNCHANGED << notDriver, cfg, lastBlock, cancelled, tickerC, statsTickerC, startErr,
                    blocksProcessed, ticks, statsActive, startHead, cancelMid >>

(***************************************************************************)
(* Decoder.GetAllSwapLogs: one fetch per enabled protocol.  A failed fetch *)
(* is logged as a warning and its logs are left out; the function always   *)
(* returns a nil error.                                                    *)
(***************************************************************************)
GetAllSwapLogsV2 ==
    /\ pc = "gasl_v2"
    /\ IF cfg.EnableUniswapV2
       THEN \E ok \in GetLogsOutcomes :
              /\ allLogs' = IF ok
                            THEN allLogs \o FilterLogs("uniswap_v2", fromBlock, toBlock)
                            ELSE allLogs
              /\ tick' = [tick EXCEPT !.v2Failed = ~ok]
       ELSE UNCHANGED << allLogs, tick >>
    /\ pc' = "gasl_v3"
    /\ UNCHANGED << notDriver, cfg, lastBlock, cancelled, tickerC, statsTickerC, startErr,
                    currentBlock, fromBlock, toBlock, blocksProcessed, ticks,
                    inFlight, statsActive, startHead, firstFrom, cancelMid >>

GetAllSwapLogsV3 ==
    /\ pc = "gasl_v3"
    /\ IF cfg.EnableUniswapV3
       THEN \E ok \in GetLogsOutcomes :
              /\ allLogs' = SortLogs(IF ok
                                     THEN allLogs \o FilterLogs("uniswap_v3", fromBlock, toBlock)
                                     ELSE allLogs)
              /\ tick' = [tick EXCEPT !.v3Failed = ~ok]
       ELSE /\ allLogs' = SortLogs(allLogs)
            /\ UNCHANGED tick
    /\ pc' = "pbr"
    /\ UNCHANGED << notDriver, cfg, lastBlock, cancelled, tickerC, statsTickerC, startErr,
                    currentBlock, fromBlock, toBlock, blocksProcessed, ticks,
                    inFlight, statsActive, startHead, firstFrom, cancelMid >>

\* the error GetAllSwapLogs returns to processBlockRange (line 75: always nil)
GetAllSwapLogsErr == FALSE

\* lines 134-138 with the watermark set to the head instead of toBlock
AdvanceWatermarkToHead ==
    /\ pc = "advance"
    /\ lastBlock' = currentBlock
    /\ ReturnToLoop("ok")
    /\ UNCHANGED << notDriver, cfg, cancelled, tickerC, statsTickerC, startErr, locals,
                    blocksProcessed, ticks, statsActive, startHead, firstFrom,
                    cancelMid >>

\* lines 134-138: processBlockRange returned nil
AdvanceWatermark ==
    /\ pc = "advance"
    /\ lastBlock' = toBlock
    /\ ReturnToLoop("ok")
    /\ UNCHANGED << notDriver, cfg, cancelled, tickerC, statsTickerC, startErr, locals,
                    blocksProcessed, ticks, statsActive, startHead, firstFrom,
                    cancelMid >>

(***************************************************************************)
(* The protocol decoders (uniswapv2.Decoder, uniswapv3.Decoder) and the    *)
(* unified decoder.Decoder.                                                *)
(*                                                                         *)
(* A payload is a sequence of 32-byte words; a word is its big-endian bit  *)
(* string, scaled from 256 bits to WordBits bits, so the top bit of byte 0 *)
(* of a word is the first bit.  Bytes that follow the last whole word are  *)
(* never read and cannot change a length comparison against a multiple of  *)
(* 32, so a payload's length is 32 bytes per word.                         *)
(***************************************************************************)
\* width of the scaled 256-bit payload word
WordBits == 2
\* getPoolInfo calls made in the lifetime of the decoders of SpecPool
MaxLookups == 3
\* logs of one DecodeSwapsForTransaction batch
MaxLogs == 2

WordMod == 2 ^ WordBits
Words == [1 .. WordBits -> {0, 1}]

WordBytes == 32
MinTopics == 3
V2MinDataBytes == 128
V3MinDataBytes == 160

V2SwapEventSignature == "0xd78ad95f"
V3SwapEventSignature == "0xc42079f9"
OtherEventSignature == "0x1c411e9a"
Signatures == {V2SwapEventSignature, V3SwapEventSignature, OtherEventSignature}

Pools == {"poolA", "poolB"}
Selectors == {"token0", "token1", "fee"}
Decoders == {"uniswap_v2", "uniswap_v3"}

\* the immutable on-chain facts the metadata calls return
ChainPool(p) ==
    IF p = "poolA"
    THEN [Token0 |-> "WETH", Token1 |-> "USDC", Fee |-> 500]
    ELSE [Token0 |-> "DAI", Token1 |-> "WETH", Fee |-> 3000]

\* len(log.Data)
DataLen(data) == WordBytes * Len(data)

\* new(big.Int).SetBytes(word): the big-endian unsigned value
RECURSIVE SetBytes(_)
SetBytes(w) ==
    IF Len(w) = 0 THEN 0
    ELSE 2 * SetBytes(SubSeq(w, 1, Len(w) - 1)) + w[Len(w)]

\* log.Data[k]&0x80 != 0 for the first byte of a word
TopBitSet(w) == w[1] = 1

\* the signed reading with the sign conversion left out
SignedWithoutConversion(w) == SetBytes(w)

\* uniswapv3 lines 285-289: SetBytes, then minus 2^256 when the top bit is set
Signed(w) == IF TopBitSet(w) THEN SetBytes(w) - WordMod ELSE SetBytes(w)

\* the In/Out split with the negation left out
SplitAmountWithoutNeg(a) ==
    IF a > 0 THEN [In |-> a, Out |-> 0] ELSE [In |-> 0, Out |-> a]

\* uniswapv3 lines 312-320 (and 322-330): the In/Out split of a signed amount
SplitAmount(a) ==
    IF a > 0 THEN [In |-> a, Out |-> 0] ELSE [In |-> 0, Out |-> -a]

(***************************************************************************)
(* Pool metadata.  rpc gives, per selector, how the CallContract wrapper   *)
(* answers if the call is issued: "ok" (at least 32 bytes), "short" (fewer *)
(* than 32 bytes) or "err" (error after the retries).                      *)
(***************************************************************************)
CallOutcomes == {"ok", "short", "err"}
\* getPoolInfo stops at the first call that fails, so the answers to the calls
\* after it are never seen: at most one selector is given a failing answer
RpcAnswers ==
    {a \in [Selectors -> CallOutcomes] :
        Cardinality({sel \in Selectors : a[sel] # "ok"}) <= 1}

\* callToken0 / callToken1 / callFee return an error
CallFails(outcome) == outcome # "ok"

EmptyCache == [p \in {} |-> 0]
NoInfo == [Token0 |-> "", Token1 |-> "", Fee |-> 0]

PoolInfoResult(info, err, cache, issued) ==
    [info |-> info, err |-> err, cache |-> cache, issued |-> issued]

\* getPoolInfo without the cache check of line 355
V3GetPoolInfoUncached(cache, pool, rpc) ==
    IF CallFails(rpc["token0"])
    THEN PoolInfoResult(NoInfo, TRUE, cache, {"token0"})
    ELSE IF CallFails(rpc["token1"])
    THEN PoolInfoResult(NoInfo, TRUE, cache, {"token0", "token1"})
    ELSE IF CallFails(rpc["fee"])
    THEN PoolInfoResult(NoInfo, TRUE, cache, Selectors)
    ELSE LET info == ChainPool(pool) IN
         PoolInfoResult(info, FALSE,
                        [q \in DOMAIN cache \cup {pool} |->
                            IF q = pool THEN info ELSE cache[q]],
                        Selectors)

\* getPoolInfo storing the entry before the fee call has answered
V3GetPoolInfoEarlyStore(cache, pool, rpc) ==
    IF pool \in DOMAIN cache
    THEN PoolInfoResult(cache[pool], FALSE, cache, {})
    ELSE IF CallFails(rpc["token0"])
    THEN PoolInfoResult(NoInfo, TRUE, cache, {"token0"})
    ELSE IF CallFails(rpc["token1"])
    THEN PoolInfoResult(NoInfo, TRUE, cache, {"token0", "token1"})
    ELSE LET info == ChainPool(pool)
             part == [info EXCEPT !.Fee = 0]
         IN  IF CallFails(rpc["fee"])
             THEN PoolInfoResult(NoInfo, TRUE,
                                 [q \in DOMAIN cache \cup {pool} |->
                                     IF q = pool THEN part ELSE cache[q]],
                                 Selectors)
             ELSE PoolInfoResult(info, FALSE,
                                 [q \in DOMAIN cache \cup {pool} |->
                                     IF q = pool THEN info ELSE cache[q]],
                                 Selectors)

\* uniswapv3.Decoder.getPoolInfo
V3GetPoolInfo(cache, pool, rpc) ==
    IF pool \in DOMAIN cache
    THEN PoolInfoResult(cache[pool], FALSE, cache, {})
    ELSE IF CallFails(rpc["token0"])
    THEN PoolInfoResult(NoInfo, TRUE, cache, {"token0"})
    ELSE IF CallFails(rpc["token1"])
    THEN PoolInfoResult(NoInfo, TRUE, cache, {"token0", "token1"})
    ELSE IF CallFails(rpc["fee"])
    THEN PoolInfoResult(NoInfo, TRUE, cache, Selectors)
    ELSE LET info == ChainPool(pool) IN
         PoolInfoResult(info, FALSE,
                        [q \in DOMAIN cache \cup {pool} |->
                            IF q = pool THEN info ELSE cache[q]],
                        Selectors)

\* uniswapv2.Decoder.getPoolInfo (its PoolInfo has no fee; reserves stay nil)
V2GetPoolInfo(cache, pool, rpc) ==
    IF pool \in DOMAIN cache
    THEN PoolInfoResult(cache[pool], FALSE, cache, {})
    ELSE IF CallFails(rpc["token0"])
    THEN PoolInfoResult(NoInfo, TRUE, cache, {"token0"})
    ELSE IF CallFails(rpc["token1"])
    THEN PoolInfoResult(NoInfo, TRUE, cache, {"token0", "token1"})
    ELSE LET info == [ChainPool(pool) EXCEPT !.Fee = 0] IN
         PoolInfoResult(info, FALSE,
                        [q \in DOMAIN cache \cup {pool} |->
                            IF q = pool THEN info ELSE cache[q]],
                        {"token0", "token1"})

(***************************************************************************)
(* DecodeSwapLog of the two protocol decoders and of the unified decoder.  *)
(* A result is a swap, an error, or nil (no swap and no error); looked     *)
(* tells whether getPoolInfo was called, and pi is its answer.             *)
(***************************************************************************)
NoSwap ==
    [TxHash |-> "", BlockNumber |-> 0, LogIndex |-> 0, Pool |-> "",
     Protocol |-> "", Sender |-> "", Recipient |-> "", Token0 |-> "",
     Token1 |-> "", Amount0In |-> 0, Amount1In |-> 0, Amount0Out |-> 0,
     Amount1Out |-> 0, SqrtPriceX96 |-> 0, Liquidity |-> 0, Tick |-> 0]

NoLookup == PoolInfoResult(NoInfo, FALSE, EmptyCache, {})

DecodeNil == [kind |-> "nil", swap |-> NoSwap, looked |-> FALSE, dec |-> "", pi |-> NoLookup]
DecodeErr(d) == [kind |-> "err", swap |-> NoSwap, looked |-> FALSE, dec |-> d, pi |-> NoLookup]
LookupErr(d, pi) == [kind |-> "err", swap |-> NoSwap, looked |-> TRUE, dec |-> d, pi |-> pi]
DecodeOk(d, swap, pi) == [kind |-> "swap", swap |-> swap, looked |-> TRUE, dec |-> d, pi |-> pi]

\* DecodeSwapLog returning nil, nil for a payload that is too short
V3DecodeSwapLogNilOnShortData(log, cache, rpc) ==
    IF Len(log.Topics) < MinTopics THEN DecodeErr("uniswap_v3")
    ELSE IF log.Topics[1] # V3SwapEventSignature THEN DecodeErr("uniswap_v3")
    ELSE IF DataLen(log.Data) < V3MinDataBytes
    THEN [DecodeErr("uniswap_v3") EXCEPT !.kind = "nil"]
    ELSE LET amount0 == Signed(log.Data[1])
             amount1 == Signed(log.Data[2])
             pi == V3GetPoolInfo(cache, log.Address, rpc)
             a0 == SplitAmount(amount0)
             a1 == SplitAmount(amount1)
         IN  IF pi.err THEN LookupErr("uniswap_v3", pi)
             ELSE DecodeOk("uniswap_v3",
                    [TxHash |-> log.TxHash, BlockNumber |-> log.BlockNumber,
                     LogIndex |-> log.Index, Pool |-> log.Address,
                     Protocol |-> "uniswap_v3",
                     Sender |-> log.Topics[2], Recipient |-> log.Topics[3],
                     Token0 |-> pi.info.Token0, Token1 |-> pi.info.Token1,
                     Amount0In |-> a0.In, Amount1In |-> a1.In,
                     Amount0Out |-> a0.Out, Amount1Out |-> a1.Out,
                     SqrtPriceX96 |-> SetBytes(log.Data[3]),
                     Liquidity |-> SetBytes(log.Data[4]),
                     Tick |-> Signed(log.Data[5])],
                    pi)

\* uniswapv3.Decoder.DecodeSwapLog
V3DecodeSwapLog(log, cache, rpc) ==
    IF Len(log.Topics) < MinTopics THEN DecodeErr("uniswap_v3")
    ELSE IF log.Topics[1] # V3SwapEventSignature THEN DecodeErr("uniswap_v3")
    ELSE IF DataLen(log.Data) < V3MinDataBytes THEN DecodeErr("uniswap_v3")
    ELSE LET amount0 == Signed(log.Data[1])
             amount1 == Signed(log.Data[2])
             pi == V3GetPoolInfo(cache, log.Address, rpc)
             a0 == SplitAmount(amount0)
             a1 == SplitAmount(amount1)
         IN  IF pi.err THEN LookupErr("uniswap_v3", pi)
             ELSE DecodeOk("uniswap_v3",
                    [TxHash |-> log.TxHash, BlockNumber |-> log.BlockNumber,
                     LogIndex |-> log.Index, Pool |-> log.Address,
                     Protocol |-> "uniswap_v3",
                     Sender |-> log.Topics[2], Recipient |-> log.Topics[3],
                     Token0 |-> pi.info.Token0, Token1 |-> pi.info.Token1,
                     Amount0In |-> a0.In, Amount1In |-> a1.In,
                     Amount0Out |-> a0.Out, Amount1Out |-> a1.Out,
                     SqrtPriceX96 |-> SetBytes(log.Data[3]),
                     Liquidity |-> SetBytes(log.Data[4]),
                     Tick |-> Signed(log.Data[5])],
                    pi)

\* DecodeSwapLog resolving the pool before it checks the payload length
V2DecodeSwapLogLookupFirst(log, cache, rpc) ==
    IF Len(log.Topics) < MinTopics THEN DecodeErr("uniswap_v2")
    ELSE IF log.Topics[1] # V2SwapEventSignature THEN DecodeErr("uniswap_v2")
    ELSE LET pi == V2GetPoolInfo(cache, log.Address, rpc) IN
         IF DataLen(log.Data) < V2MinDataBytes \/ pi.err THEN LookupErr("uniswap_v2", pi)
         ELSE DecodeOk("uniswap_v2",
                [TxHash |-> log.TxHash, BlockNumber |-> log.BlockNumber,
                 LogIndex |-> log.Index, Pool |-> log.Address,
                 Protocol |-> "uniswap_v2",
                 Sender |-> log.Topics[2], Recipient |-> log.Topics[3],
                 Token0 |-> pi.info.Token0, Token1 |-> pi.info.Token1,
                 Amount0In |-> SetBytes(log.Data[1]),
                 Amount1In |-> SetBytes(log.Data[2]),
                 Amount0Out |-> SetBytes(log.Data[3]),
                 Amount1Out |-> SetBytes(log.Data[4]),
                 SqrtPriceX96 |-> 0, Liquidity |-> 0, Tick |-> 0],
                pi)

\* uniswapv2.Decoder.DecodeSwapLog
V2DecodeSwapLog(log, cache, rpc) ==
    IF Len(log.Topics) < MinTopics THEN DecodeErr("uniswap_v2")
    ELSE IF log.Topics[1] # V2SwapEventSignature THEN DecodeErr("uniswap_v2")
    ELSE IF DataLen(log.Data) < V2MinDataBytes THEN DecodeErr("uniswap_v2")
    ELSE LET pi == V2GetPoolInfo(cache, log.Address, rpc) IN
         IF pi.err THEN LookupErr("uniswap_v2", pi)
         ELSE DecodeOk("uniswap_v2",
                [TxHash |-> log.TxHash, BlockNumber |-> log.BlockNumber,
                 LogIndex |-> log.Index, Pool |-> log.Address,
                 Protocol |-> "uniswap_v2",
                 Sender |-> log.Topics[2], Recipient |-> log.Topics[3],
                 Token0 |-> pi.info.Token0, Token1 |-> pi.info.Token1,
                 Amount0In |-> SetBytes(log.Data[1]),
                 Amount1In |-> SetBytes(log.Data[2]),
                 Amount0Out |-> SetBytes(log.Data[3]),
                 Amount1Out |-> SetBytes(log.Data[4]),
                 SqrtPriceX96 |-> 0, Liquidity |-> 0, Tick |-> 0],
                pi)

\* the dispatch with the V3 decoder as the default case of the switch
DecodeSwapLogDefaultV3(log, rpc) ==
    IF Len(log.Topics) = 0 THEN DecodeNil
    ELSE IF log.Topics[1] = V2SwapEventSignature /\ enabled.v2
    THEN V2DecodeSwapLog(log, v2PoolCache, rpc)
    ELSE IF enabled.v3
    THEN V3DecodeSwapLog(log, v3PoolCache, rpc)
    ELSE DecodeNil

\* decoder.Decoder.DecodeSwapLog: dispatch on the first topic
DecodeSwapLog(log, rpc) ==
    IF Len(log.Topics) = 0 THEN DecodeNil
    ELSE IF log.Topics[1] = V2SwapEventSignature /\ enabled.v2
    THEN V2DecodeSwapLog(log, v2PoolCache, rpc)
    ELSE IF log.Topics[1] = V3SwapEventSignature /\ enabled.v3
    THEN V3DecodeSwapLog(log, v3PoolCache, rpc)
    ELSE DecodeNil

\* d.poolCache of the protocol decoder d
PoolCache(d) == IF d = "uniswap_v2" THEN v2PoolCache ELSE v3PoolCache

\* the state a DecodeSwapLog call leaves behind: caches, calls issued, history
\* (rpc is how the node answered; failed holds the issued calls it failed)
ApplyDecode(log, r, rpc) ==
    /\ inLog' = log
    /\ result' = [kind |-> r.kind, swap |-> r.swap, dec |-> r.dec]
    /\ v2PoolCache' = IF r.looked /\ r.dec = "uniswap_v2" THEN r.pi.cache ELSE v2PoolCache
    /\ v3PoolCache' = IF r.looked /\ r.dec = "uniswap_v3" THEN r.pi.cache ELSE v3PoolCache
    /\ calls' = IF r.looked
                THEN [calls EXCEPT ![r.dec][log.Address] =
                        [sel \in Selectors |->
                            @[sel] + IF sel \in r.pi.issued THEN 1 ELSE 0]]
                ELSE calls
    /\ lookup' = IF r.looked
                 THEN [n |-> lookup.n + 1, dec |-> r.dec, pool |-> log.Address,
                       hit |-> r.pi.issued = {}, err |-> r.pi.err,
                       info |-> r.pi.info,
                       failed |-> {sel \in r.pi.issued : CallFails(rpc[sel])}]
                 ELSE lookup

(***************************************************************************)
(* Inputs of the decoders.                                                 *)
(***************************************************************************)
\* the word that holds v: its two's-complement bit string
EncodeWord(v) ==
    [i \in 1 .. WordBits |-> ((v % WordMod) \div (2 ^ (WordBits - i))) % 2]

TopicLists ==
    {<< >>} \cup
    {SubSeq(<< sig, "sender", "recipient" >>, 1, n) : sig \in Signatures, n \in 2 .. 3}

V3Payloads ==
    {<< a0, a1, EncodeWord(-1), EncodeWord(1), t >> : a0 \in Words, a1 \in Words, t \in Words}
V2Payloads == [1 .. 4 -> Words]
ShortPayloads == {<< >>, << EncodeWord(1), EncodeWord(1), EncodeWord(1) >>}

MakeLog(index, pool, topics, data) ==
    [TxHash |-> "tx", BlockNumber |-> 1, Index |-> index, Address |-> pool,
     Topics |-> topics, Data |-> data]

\* every log DecodeSwapLog is tried on in SpecDecode
LogInputs ==
    {MakeLog(0, p, t, d) : p \in Pools, t \in TopicLists,
                           d \in V3Payloads \cup V2Payloads \cup ShortPayloads}

\* the logs a batch of SpecPool is drawn from
BatchPayloads ==
    {<< EncodeWord(1), EncodeWord(-1), EncodeWord(1), EncodeWord(1), EncodeWord(0) >>,
     << EncodeWord(1) >>}
BatchLogs ==
    {MakeLog(i, p, << sig, "sender", "recipient" >>, d) :
        i \in 0 .. MaxLogs - 1, p \in Pools,
        sig \in {V2SwapEventSignature, V3SwapEventSignature}, d \in BatchPayloads}

NoLog == MakeLog(0, "", << >>, << >>)

(***************************************************************************)
(* decoder.NewDecoder and the calls made on the decoder.                   *)
(***************************************************************************)
NoResult == [kind |-> "nil", swap |-> NoSwap, dec |-> ""]
NoLookups ==
    [n |-> 0, dec |-> "", pool |-> "", hit |-> FALSE, err |-> FALSE,
     info |-> NoInfo, failed |-> {}]
\* errs: DecodeSwapLog calls of this batch that returned an error; retErr: the
\* error DecodeSwapsForTransaction returned; reported: LogError calls made for it
NoBatch ==
    [n |-> 0, ok |-> 0, used |-> {}, failed |-> FALSE, after |-> FALSE,
     errs |-> 0, retErr |-> FALSE, reported |-> 0]

NewDecoder ==
    /\ enabled = [v2 |-> cfg.EnableUniswapV2, v3 |-> cfg.EnableUniswapV3]
    /\ v2PoolCache = EmptyCache
    /\ v3PoolCache = EmptyCache
    /\ result = NoResult
    /\ swaps = << >>
    /\ calls = [d \in Decoders |-> [p \in Pools |-> [sel \in Selectors |-> 0]]]
    /\ lookup = NoLookups
    /\ batch = NoBatch

\* one DecodeSwapLog call on inLog, and the same call once more
DecodeOne ==
    /\ pcD \in {"call", "again"}
    /\ \E rpc \in RpcAnswers : ApplyDecode(inLog, DecodeSwapLog(inLog, rpc), rpc)
    /\ pcD' = IF pcD = "call" THEN "again" ELSE "done"
    /\ UNCHANGED << notDecode, enabled, swaps, batch >>

\* DecodeSwapLog of one protocol decoder called on inLog directly
DecodeProtocol ==
    /\ pcD = "direct"
    /\ \E d \in Decoders, rpc \in RpcAnswers :
         ApplyDecode(inLog,
                     IF d = "uniswap_v2"
                     THEN V2DecodeSwapLog(inLog, v2PoolCache, rpc)
                     ELSE V3DecodeSwapLog(inLog, v3PoolCache, rpc),
                     rpc)
    /\ pcD' = "done"
    /\ UNCHANGED << notDecode, enabled, swaps, batch >>

\* the less function handed to sort.Slice in DecodeSwapsForTransaction
RECURSIVE InsertSwap(_, _)
InsertSwap(x, s) ==
    IF s = << >> THEN << x >>
    ELSE IF x.LogIndex < Head(s).LogIndex THEN << x >> \o s
    ELSE << Head(s) >> \o InsertSwap(x, Tail(s))

\* the sort left out: the slice stays in the order it was given
KeepOrder(s) == s

RECURSIVE SortSwaps(_)
SortSwaps(s) ==
    IF s = << >> THEN << >> ELSE InsertSwap(Head(s), SortSwaps(Tail(s)))

\* DecodeSwapsForTransaction is entered: var swaps []types.Swap
BeginBatch ==
    /\ pcD \in {"idle", "returned"}
    /\ pcD' = "loop"
    /\ swaps' = << >>
    /\ batch' = NoBatch
    /\ UNCHANGED << notDecode, enabled, v2PoolCache, v3PoolCache, inLog, result,
                    calls, lookup >>

\* what one iteration of the loop does with the result of DecodeSwapLog
\* (after: a swap was appended after a lookup of this batch had failed)
LoopBody(log, r, rpc, continue) ==
    /\ ApplyDecode(log, r, rpc)
    /\ swaps' = IF r.kind = "swap" THEN Append(swaps, r.swap) ELSE swaps
    /\ batch' = [n |-> batch.n + 1,
                 ok |-> batch.ok + IF r.kind = "swap" THEN 1 ELSE 0,
                 used |-> batch.used \cup {log.Index},
                 failed |-> batch.failed \/ (r.looked /\ r.pi.err),
                 after |-> batch.after \/ (batch.failed /\ r.kind = "swap"),
                 errs |-> batch.errs + IF r.kind = "err" THEN 1 ELSE 0,
                 retErr |-> FALSE,
                 reported |-> batch.reported]
    /\ pcD' = IF continue THEN "loop" ELSE "sort"

\* the loop leaving at the first error instead of going on
DecodeNextStopOnErr ==
    /\ pcD = "loop"
    /\ batch.n < MaxLogs
    /\ lookup.n < MaxLookups
    /\ \E log \in BatchLogs, rpc \in RpcAnswers :
         /\ log.Index \notin batch.used
         /\ LET r == DecodeSwapLog(log, rpc) IN LoopBody(log, r, rpc, r.kind # "err")
    /\ UNCHANGED << notDecode, enabled >>

\* one iteration of the loop of DecodeSwapsForTransaction
DecodeNext ==
    /\ pcD = "loop"
    /\ batch.n < MaxLogs
    /\ lookup.n < MaxLookups
    /\ \E log \in BatchLogs, rpc \in RpcAnswers :
         /\ log.Index \notin batch.used
         /\ LoopBody(log, DecodeSwapLog(log, rpc), rpc, TRUE)
    /\ UNCHANGED << notDecode, enabled >>

\* processBlockRange lines 167-170: LogError when the call returned an error
ReportDecodeError(retErr) == IF retErr THEN 1 ELSE 0

\* the logs are exhausted: sort by log index and return swaps, nil (the loop's
\* locals log, swap and err go out of scope); the caller reports the returned
\* error, if there is one
ReturnBatch ==
    /\ pcD \in {"loop", "sort"}
    /\ swaps' = SortSwaps(swaps)
    /\ pcD' = "returned"
    /\ inLog' = NoLog
    /\ result' = NoResult
    /\ lookup' = [NoLookups EXCEPT !.n = lookup.n]
    /\ batch' = [batch EXCEPT !.retErr = FALSE,
                              !.reported = @ + ReportDecodeError(FALSE)]
    /\ UNCHANGED << notDecode, enabled, v2PoolCache, v3PoolCache, calls >>

(***************************************************************************)
(* Addresses and their text.  common.Address is scaled down to AddrNibbles *)
(* hexadecimal digits.  Address.Hex() is the "0x" text with the mixed-case *)
(* checksum of EIP-55: whether a letter is written in upper case depends   *)
(* on a hash of the address; the hash is stood for by a small function of  *)
(* the digit and its position.                                             *)
(***************************************************************************)
AddrNibbles == 2

Addr(d) == [i \in 1 .. AddrNibbles |-> d]

\* common.Address{}
ZeroAddress == Addr(0)

\* the reference token, and two other tokens
WETH == Addr(12)
TokenB == Addr(10)
TokenC == Addr(11)

ChecksumUpper(addr, i) == (addr[i] + i) % 2 = 1

\* the character code of one hexadecimal digit: '0'-'9', 'A'-'F' or 'a'-'f'
HexChar(d, upper) ==
    IF d < 10 THEN 48 + d ELSE IF upper THEN 55 + d ELSE 87 + d

Hex(addr) ==
    << 48, 120 >> \o [i \in 1 .. AddrNibbles |-> HexChar(addr[i], ChecksumUpper(addr, i))]

\* Go's s < t on strings: bytewise lexicographic order
RECURSIVE StringLess(_, _)
StringLess(s, t) ==
    IF t = << >> THEN FALSE
    ELSE IF s = << >> THEN TRUE
    ELSE IF Head(s) # Head(t) THEN Head(s) < Head(t)
    ELSE StringLess(Tail(s), Tail(t))

(***************************************************************************)
(* The swaps handed to the detector.  Each pool has its two tokens; a swap *)
(* is a pool and its four amounts; the log index is the swap's position in *)
(* the transaction.                                                        *)
(***************************************************************************)
MaxSwaps == 3

ArbPools == {"poolX", "poolY", "poolZ", "poolW"}

ArbPoolTokens(p) ==
    CASE p = "poolX" -> [Token0 |-> WETH, Token1 |-> TokenC]
      [] p = "poolY" -> [Token0 |-> TokenC, Token1 |-> WETH]
      [] p = "poolZ" -> [Token0 |-> TokenC, Token1 |-> TokenB]
      [] p = "poolW" -> [Token0 |-> TokenB, Token1 |-> WETH]

\* the amounts of a swap: token0 in for token1 out and token1 in for token0
\* out, each for the given pairs of amount in and amount out; no amounts at
\* all, and token0 both in and out
ArbAmounts(pairs) ==
    {[Amount0In |-> a[1], Amount1In |-> 0, Amount0Out |-> 0, Amount1Out |-> a[2]] :
        a \in pairs}
    \cup
    {[Amount0In |-> 0, Amount1In |-> a[1], Amount0Out |-> a[2], Amount1Out |-> 0] :
        a \in pairs}

OddAmounts ==
    {[Amount0In |-> 0, Amount1In |-> 0, Amount0Out |-> 0, Amount1Out |-> 0],
     [Amount0In |-> 1, Amount1In |-> 0, Amount0Out |-> 2, Amount1Out |-> 0]}

\* the two pools of the WETH/TokenC pair trade at a gain and at a loss, the
\* other two pools at a gain
ArbShapes ==
    {[pool |-> p, amounts |-> a] :
        p \in {"poolX", "poolY"}, a \in ArbAmounts({<< 1, 2 >>, << 2, 1 >>})}
    \cup {[pool |-> p, amounts |-> a] :
        p \in {"poolZ", "poolW"}, a \in ArbAmounts({<< 1, 2 >>})}
    \cup {[pool |-> "poolX", amounts |-> a] : a \in OddAmounts}

SenderAt(index) == IF index % 2 = 1 THEN "alice" ELSE "bob"

MakeSwap(index, shape) ==
    [TxHash |-> "tx", BlockNumber |-> 1, LogIndex |-> index, Pool |-> shape.pool,
     Protocol |-> "uniswap_v2", Sender |-> SenderAt(index), Recipient |-> "recipient",
     Token0 |-> ArbPoolTokens(shape.pool).Token0,
     Token1 |-> ArbPoolTokens(shape.pool).Token1,
     Amount0In |-> shape.amounts.Amount0In, Amount1In |-> shape.amounts.Amount1In,
     Amount0Out |-> shape.amounts.Amount0Out, Amount1Out |-> shape.amounts.Amount1Out,
     SqrtPriceX96 |-> 0, Liquidity |-> 0, Tick |-> 0]

Reverse(s) == [i \in 1 .. Len(s) |-> s[Len(s) + 1 - i]]

\* the swap lists DetectArbitrage is tried on: in log-index order, as
\* DecodeSwapsForTransaction returns them, and the pairs also in the
\* opposite order
ArbInputs ==
    LET lists == UNION {[1 .. n -> ArbShapes] : n \in 0 .. MaxSwaps}
        asc(l) == [i \in 1 .. Len(l) |-> MakeSwap(i, l[i])]
    IN  {asc(l) : l \in lists} \cup {Reverse(asc(l)) : l \in [1 .. 2 -> ArbShapes]}

(***************************************************************************)
(* detectCyclicArbitrage.                                                  *)
(***************************************************************************)
\* the zero tokenFlow: no token on either side, nil amounts
NoFlow ==
    [tokenIn |-> ZeroAddress, tokenOut |-> ZeroAddress, amountIn |-> 0, amountOut |-> 0]

\* the flow read off the input side alone, the output being the other token
TokenFlowByInput(swap) ==
    IF swap.Amount0In > 0
    THEN [tokenIn |-> swap.Token0, tokenOut |-> swap.Token1,
          amountIn |-> swap.Amount0In, amountOut |-> swap.Amount1Out]
    ELSE IF swap.Amount1In > 0
    THEN [tokenIn |-> swap.Token1, tokenOut |-> swap.Token0,
          amountIn |-> swap.Amount1In, amountOut |-> swap.Amount0Out]
    ELSE NoFlow

\* lines 93-127: the flow of one swap
TokenFlow(swap) ==
    IF swap.Amount0In > 0 /\ swap.Amount1Out > 0
    THEN [tokenIn |-> swap.Token0, tokenOut |-> swap.Token1,
          amountIn |-> swap.Amount0In, amountOut |-> swap.Amount1Out]
    ELSE IF swap.Amount1In > 0 /\ swap.Amount0Out > 0
    THEN [tokenIn |-> swap.Token1, tokenOut |-> swap.Token0,
          amountIn |-> swap.Amount1In, amountOut |-> swap.Amount0Out]
    ELSE LET in == IF swap.Amount0In > 0
                   THEN [NoFlow EXCEPT !.tokenIn = swap.Token0,
                                       !.amountIn = swap.Amount0In]
                   ELSE IF swap.Amount1In > 0
                   THEN [NoFlow EXCEPT !.tokenIn = swap.Token1,
                                       !.amountIn = swap.Amount1In]
                   ELSE NoFlow
         IN  IF swap.Amount0Out > 0
             THEN [in EXCEPT !.tokenOut = swap.Token0, !.amountOut = swap.Amount0Out]
             ELSE IF swap.Amount1Out > 0
             THEN [in EXCEPT !.tokenOut = swap.Token1, !.amountOut = swap.Amount1Out]
             ELSE in

\* line 129: a flow is kept when both of its tokens are set
ValidFlow(flow) == flow.tokenIn # ZeroAddress /\ flow.tokenOut # ZeroAddress

Flows(swapList) ==
    SelectSeq([i \in 1 .. Len(swapList) |-> TokenFlow(swapList[i])], ValidFlow)

\* a types.Arbitrage before the gas data is filled in; kind tells which
\* detection produced it and fetched which of the two fetches answered
Arbitrage(kind, first, path, token, amountIn, amountOut) ==
    [kind |-> kind, TxHash |-> first.TxHash, BlockNumber |-> first.BlockNumber,
     Arbitrageur |-> first.Sender, Path |-> path,
     TokenStart |-> token, TokenEnd |-> token,
     AmountIn |-> amountIn, AmountOut |-> amountOut,
     Profit |-> amountOut - amountIn, ProfitToken |-> token,
     GasUsed |-> 0, GasPrice |-> Unset, NetProfitWei |-> Unset,
     fetched |-> "none"]

\* the connectivity loop looking only at the first pair of flows
ConnectedAtHead(flows) == flows[1].tokenOut = flows[2].tokenIn

\* lines 147-151: the output of every flow feeds the next flow
Connected(flows) ==
    \A i \in 1 .. Len(flows) - 1 : flows[i].tokenOut = flows[i + 1].tokenIn

\* the profit test letting a break-even cycle through
ProfitableOrEven(amountIn, amountOut) == amountOut >= amountIn

\* the profit test with its operands exchanged
ProfitableReversed(amountIn, amountOut) == amountIn > amountOut

\* lines 157-159: amountOut.Cmp(amountIn) > 0
Profitable(amountIn, amountOut) == amountOut > amountIn

\* the outcome is the empty sequence (nil) or a single finding
detectCyclicArbitrage(swapList) ==
    IF Len(swapList) < 2 THEN << >>
    ELSE LET flows == Flows(swapList) IN
         IF Len(flows) < 2 THEN << >>
         ELSE LET firstToken == flows[1].tokenIn
                  lastToken == flows[Len(flows)].tokenOut
                  amountIn == flows[1].amountIn
                  amountOut == flows[Len(flows)].amountOut
              IN  IF firstToken # lastToken THEN << >>
                  ELSE IF ~Connected(flows) THEN << >>
                  ELSE IF ~Profitable(amountIn, amountOut) THEN << >>
                  ELSE << Arbitrage("cyclic", swapList[1], swapList, firstToken,
                                    amountIn, amountOut) >>

(***************************************************************************)
(* detectCrossDEXArbitrage.                                                *)
(***************************************************************************)
\* the value of an address read as a number
RECURSIVE DigitsValue(_)
DigitsValue(digits) ==
    IF digits = << >> THEN 0
    ELSE 16 * DigitsValue(SubSeq(digits, 1, Len(digits) - 1)) + digits[Len(digits)]

AddrValue(addr) == DigitsValue(addr)

\* the pair key ordering the two tokens by their numeric value
PairKeyNumeric(swap) ==
    IF AddrValue(swap.Token0) < AddrValue(swap.Token1)
    THEN << swap.Token0, swap.Token1 >>
    ELSE << swap.Token1, swap.Token0 >>

\* lines 200-206: the pair key, smaller Hex() text first
PairKey(swap) ==
    IF StringLess(Hex(swap.Token0), Hex(swap.Token1))
    THEN << swap.Token0, swap.Token1 >>
    ELSE << swap.Token1, swap.Token0 >>

\* lines 197-208: the pairSwaps map, each group in the order of the slice
PairSwaps(swapList) ==
    [key \in {PairKey(swapList[i]) : i \in 1 .. Len(swapList)} |->
        SelectSeq(swapList, LAMBDA s : PairKey(s) = key)]

TouchesWETH(swap) == swap.Token0 = WETH \/ swap.Token1 = WETH

\* the test for a buy leg looking at token0 only
SpendsWETHAsToken0(swap) == swap.Token0 = WETH /\ swap.Amount0In > 0

\* lines 234-235: the swap spends the reference token
SpendsWETH(swap) ==
    \/ swap.Token0 = WETH /\ swap.Amount0In > 0
    \/ swap.Token1 = WETH /\ swap.Amount1In > 0

\* the legs found without asking for two different pools
LegsOnAnyPools(buySwap, sellSwap) == TRUE

\* line 247: buySwap.Pool != sellSwap.Pool
LegsOnTwoPools(buySwap, sellSwap) == buySwap.Pool # sellSwap.Pool

\* lines 211-285: what one group of the map contributes
\* the scan of a pair's swaps keeping the last buy leg it meets, not the first
CrossForPairLastBuy(group) ==
    IF Len(group) < 2 THEN << >>
    ELSE IF Cardinality({group[i].Pool : i \in 1 .. Len(group)}) < 2 THEN << >>
    ELSE LET buys == SelectSeq(group, LAMBDA s : TouchesWETH(s) /\ SpendsWETH(s))
             sells == SelectSeq(group, LAMBDA s : TouchesWETH(s) /\ ~SpendsWETH(s))
         IN  IF buys = << >> \/ sells = << >> THEN << >>
             ELSE LET buySwap == buys[Len(buys)]
                      sellSwap == Head(sells)
                      wethIn == IF buySwap.Token0 = WETH THEN buySwap.Amount0In
                                ELSE buySwap.Amount1In
                      wethOut == IF sellSwap.Token0 = WETH THEN sellSwap.Amount0Out
                                 ELSE sellSwap.Amount1Out
                  IN  IF ~LegsOnTwoPools(buySwap, sellSwap) THEN << >>
                      ELSE IF wethOut > wethIn
                      THEN << Arbitrage("cross_dex", buySwap, << buySwap, sellSwap >>,
                                        WETH, wethIn, wethOut) >>
                      ELSE << >>

CrossForPair(group) ==
    IF Len(group) < 2 THEN << >>
    ELSE IF Cardinality({group[i].Pool : i \in 1 .. Len(group)}) < 2 THEN << >>
    ELSE LET buys == SelectSeq(group, LAMBDA s : TouchesWETH(s) /\ SpendsWETH(s))
             sells == SelectSeq(group, LAMBDA s : TouchesWETH(s) /\ ~SpendsWETH(s))
         IN  IF buys = << >> \/ sells = << >> THEN << >>
             ELSE LET buySwap == Head(buys)
                      sellSwap == Head(sells)
                      wethIn == IF buySwap.Token0 = WETH THEN buySwap.Amount0In
                                ELSE buySwap.Amount1In
                      wethOut == IF sellSwap.Token0 = WETH THEN sellSwap.Amount0Out
                                 ELSE sellSwap.Amount1Out
                  IN  IF ~LegsOnTwoPools(buySwap, sellSwap) THEN << >>
                      ELSE IF wethOut > wethIn
                      THEN << Arbitrage("cross_dex", buySwap, << buySwap, sellSwap >>,
                                        WETH, wethIn, wethOut) >>
                      ELSE << >>

\* the orders in which range may walk the keys of the map
KeyOrders(groups) ==
    {order \in [1 .. Cardinality(DOMAIN groups) -> DOMAIN groups] :
        \A i, j \in DOMAIN order : i # j => order[i] # order[j]}

RECURSIVE CrossInOrder(_, _)
CrossInOrder(groups, order) ==
    IF order = << >> THEN << >>
    ELSE CrossForPair(groups[Head(order)]) \o CrossInOrder(groups, Tail(order))

detectCrossDEXArbitrage(swapList, order) == CrossInOrder(PairSwaps(swapList), order)

(***************************************************************************)
(* DetectArbitrage: sort, the two detections, and the gas data.            *)
(***************************************************************************)
\* int64(x) of a uint64 x: values from 2^63 on come out negative
Int64(x) == IF x >= 2 ^ (UintBits - 1) THEN x - Modulus ELSE x

\* receipt.GasUsed and tx.GasPrice() as the node holds them
GasChoices ==
    [used : {1, 2 ^ (UintBits - 1) - 1, 2 ^ (UintBits - 1), MaxUint}, price : {2}]

NoGas == [used |-> 0, price |-> 0]

\* which fetches answered: none (the receipt fetch failed), the receipt only
\* (the transaction fetch failed), or both
FetchOutcomes == {"none", "receipt", "both"}

\* line 52: big.NewInt(int64(GasUsed)) * GasPrice
GasCost(gasUsed, gasPrice) == Int64(gasUsed) * gasPrice

\* lines 48-55 (and 62-69): the gas fields of one finding
WithGas(arb, fetch, gas) ==
    IF fetch = "none" THEN arb
    ELSE IF fetch = "receipt"
    THEN [arb EXCEPT !.GasUsed = gas.used, !.fetched = fetch]
    ELSE [arb EXCEPT !.GasUsed = gas.used,
                     !.GasPrice = Set(gas.price),
                     !.NetProfitWei = Set(arb.Profit - GasCost(gas.used, gas.price)),
                     !.fetched = fetch]

\* query: the last IsProfitable call, the finding asked about and the answer
NoQuery == [asked |-> FALSE, index |-> 0, answer |-> FALSE]
NoHist ==
    [given |-> << >>, pairSwaps |-> << >>, gas |-> NoGas, flows |-> << >>,
     query |-> NoQuery]

\* arbitrage.NewDetector, and no call made yet
DetectorAtRest ==
    /\ pcA = "idle"
    /\ arbIn = << >>
    /\ arbOut = << >>
    /\ arbHist = NoHist

\* Detector.DetectArbitrage(ctx, txHash, swaps)
DetectArbitrage ==
    /\ pcA = "call"
    /\ pcA' = "done"
    /\ IF Len(arbIn) < 2
       THEN /\ arbOut' = << >>
            /\ arbHist' = [NoHist EXCEPT !.given = arbIn]
            /\ UNCHANGED arbIn
       ELSE LET sorted == SortSwaps(arbIn)
                cyclic == detectCyclicArbitrage(sorted)
                groups == PairSwaps(sorted)
            IN  /\ arbIn' = sorted
                /\ \E order \in KeyOrders(groups) :
                     LET found == cyclic \o detectCrossDEXArbitrage(sorted, order) IN
                     \E gas \in IF found = << >> THEN {NoGas} ELSE GasChoices :
                     \E fetch \in [1 .. Len(found) -> FetchOutcomes] :
                        /\ arbOut' = [i \in 1 .. Len(found) |->
                                         WithGas(found[i], fetch[i], gas)]
                        /\ arbHist' = [NoHist EXCEPT !.given = arbIn,
                                                     !.pairSwaps = groups,
                                                     !.gas = gas,
                                                     !.flows = Flows(sorted)]
    /\ UNCHANGED notArb

\* the query answering from the gross profit alone
IsProfitableByGross(arb) == arb.Profit > 0

\* Detector.IsProfitable(arb)
IsProfitable(arb) ==
    IF ~arb.NetProfitWei.set THEN arb.Profit > 0 ELSE arb.NetProfitWei.val > 0

\* IsProfitable is asked about one of the findings DetectArbitrage returned
QueryProfitable ==
    /\ pcA = "done"
    /\ \E i \in 1 .. Len(arbOut) :
         arbHist' = [arbHist EXCEPT !.query = [asked |-> TRUE, index |-> i,
                                               answer |-> IsProfitable(arbOut[i])]]
    /\ pcA' = "asked"
    /\ UNCHANGED << notArb, arbIn, arbOut >>

(***************************************************************************)
(* Inspector.processBlockRange after the fetch: the logs are grouped by    *)
(* transaction, each transaction is decoded and inspected (a failing log   *)
(* is skipped, never an error of the range), every swap goes to LogSwap    *)
(* and every finding to LogArbitrage, then LogBlockComplete is called once *)
(* per block of the range.                                                 *)
(*                                                                         *)
(* The chain: the V3 log of a block is a swap on poolA, the V2 log a swap  *)
(* on poolB; both belong to the one transaction of the block.  The V2 log  *)
(* of every fourth block has a payload that is too short.  The metadata    *)
(* calls answer.  What DetectArbitrage finds in a transaction is a fact of *)
(* the transaction.  Of the decoder the range keeps the two caches.        *)
(***************************************************************************)
OkAnswers == [sel \in Selectors |-> "ok"]

ProtocolPool(proto) == IF proto = "uniswap_v3" THEN "poolA" ELSE "poolB"

Malformed(l) == l.Protocol = "uniswap_v2" /\ l.BlockNumber % 4 = 0

RawData(l) ==
    IF Malformed(l) THEN << EncodeWord(1) >>
    ELSE IF l.Protocol = "uniswap_v3"
    THEN << EncodeWord(1), EncodeWord(-1), EncodeWord(1), EncodeWord(1), EncodeWord(0) >>
    ELSE << EncodeWord(1), EncodeWord(0), EncodeWord(0), EncodeWord(1) >>

\* the ethtypes.Log behind a log of the range
RawLog(l) ==
    [TxHash |-> l.TxHash, BlockNumber |-> l.BlockNumber, Index |-> l.Index,
     Address |-> ProtocolPool(l.Protocol),
     Topics |-> << IF l.Protocol = "uniswap_v3" THEN V3SwapEventSignature
                   ELSE V2SwapEventSignature, "sender", "recipient" >>,
     Data |-> RawData(l)]

\* Decoder.GroupSwapsByTransaction: each group in the order of the slice
GroupSwapsByTransaction(logs) ==
    [h \in {logs[i].TxHash : i \in 1 .. Len(logs)} |->
        SelectSeq(logs, LAMBDA l : l.TxHash = h)]

\* what DecodeSwapLog answers for each log of a transaction
DecodeResults(logs) ==
    [i \in 1 .. Len(logs) |-> DecodeSwapLog(RawLog(logs[i]), OkAnswers)]

\* Decoder.DecodeSwapsForTransaction: the swaps it returns (its error is nil)
TransactionSwaps(logs) ==
    LET decoded == SelectSeq(DecodeResults(logs), LAMBDA r : r.kind = "swap")
    IN  SortSwaps([i \in 1 .. Len(decoded) |-> decoded[i].swap])

\* the cache of protocol decoder d after the logs were decoded (all logs of a
\* protocol are on one pool, so one lookup tells the cache they leave)
CacheAfter(d, logs) ==
    LET r == DecodeResults(logs)
        looked == {i \in 1 .. Len(logs) : r[i].looked /\ r[i].dec = d}
    IN  IF looked = {} THEN PoolCache(d)
        ELSE r[CHOOSE i \in looked : TRUE].pi.cache

\* the net profit of the finding of a transaction: below zero, above zero, or
\* unset because a gas fetch failed
ChainNetProfit(txHash) ==
    CASE txHash % 4 = 1 -> Set(-1)
      [] txHash % 4 = 2 -> Set(1)
      [] OTHER -> Unset

\* what DetectArbitrage(ctx, txHash, swaps) returns (its error is nil)
ChainArbitrages(txHash, txSwaps) ==
    IF Len(txSwaps) < 2 THEN << >>
    ELSE << [TxHash |-> txHash, BlockNumber |-> txSwaps[1].BlockNumber,
             Profit |-> 2, NetProfitWei |-> ChainNetProfit(txHash)] >>

\* output.NewLogger
NewLogger ==
    stats = [SwapsDetected |-> 0, ArbitragesFound |-> 0, TotalProfitWei |-> 0,
             TotalNetProfit |-> 0]

\* Logger.LogArbitrage: the two cumulative profits
LogArbitrage(st, arb) ==
    [st EXCEPT !.TotalProfitWei = @ + arb.Profit,
               !.TotalNetProfit = IF arb.NetProfitWei.set
                                  THEN @ + arb.NetProfitWei.val ELSE @]

RECURSIVE LogArbitrages(_, _)
LogArbitrages(st, arbs) ==
    IF arbs = << >> THEN st
    ELSE LogArbitrages(LogArbitrage(st, Head(arbs)), Tail(arbs))

\* lines 193-200: LogBlockComplete(block, totalSwaps / n, totalArbitrages / n)
\* for each of the n blocks (BlocksProcessed is the variable blocksProcessed)
LogBlocksComplete(st, n, totalSwaps, totalArbitrages) ==
    [st EXCEPT !.SwapsDetected = @ + n * (totalSwaps \div n),
               !.ArbitragesFound = @ + n * (totalArbitrages \div n)]

\* no range is being processed
NoRange ==
    [pending |-> {}, totalSwaps |-> 0, totalArbitrages |-> 0,
     observed |-> << >>, shown |-> << >>, decoded |-> 0, forwarded |-> 0]

PipelineAtRest ==
    /\ NewLogger
    /\ rng = NoRange

\* lines 165-190: one pass of the loop over the transactions
AfterTransaction(acc, txHash, txSwapLogs) ==
    LET txSwaps == TransactionSwaps(txSwapLogs)
        arbitrages == ChainArbitrages(txHash, txSwaps)
    IN  [stats |-> LogArbitrages(acc.stats, arbitrages),
         totalSwaps |-> acc.totalSwaps + Len(txSwaps),
         totalArbitrages |-> acc.totalArbitrages + Len(arbitrages)]

RECURSIVE AfterTransactions(_, _, _)
AfterTransactions(acc, groups, pending) ==
    IF pending = {} THEN acc
    ELSE LET txHash == CHOOSE h \in pending : TRUE IN
         AfterTransactions(AfterTransaction(acc, txHash, groups[txHash]),
                           groups, pending \ {txHash})

\* processBlockRange returning from an empty range without LogBlockComplete
ProcessBlockRangeSkippingEmpty ==
    /\ pc = "pbr"
    /\ LET n == toBlock - fromBlock + 1
           groups == GroupSwapsByTransaction(allLogs)
           acc == AfterTransactions(
                      [stats |-> stats, totalSwaps |-> 0, totalArbitrages |-> 0],
                      groups, DOMAIN groups)
       IN  /\ blocksProcessed' = blocksProcessed + IF Len(allLogs) = 0 THEN 0 ELSE n
           /\ stats' = LogBlocksComplete(acc.stats, n, acc.totalSwaps,
                                         acc.totalArbitrages)
           /\ v2PoolCache' = CacheAfter("uniswap_v2", allLogs)
           /\ v3PoolCache' = CacheAfter("uniswap_v3", allLogs)
           /\ tick' = [tick EXCEPT !.completed = n]
           /\ pc' = "advance"
           /\ UNCHANGED inFlight
    /\ UNCHANGED << arbVars, clientVars, rng, enabled, pcD, inLog, result, swaps,
                    calls, lookup, batch,
                    cfg, lastBlock, cancelled, tickerC, statsTickerC, startErr,
                    locals, ticks, statsActive, startHead, firstFrom, cancelMid >>

\* processBlockRange from the fetch to its return, in one step
ProcessBlockRange ==
    /\ pc = "pbr"
    /\ IF GetAllSwapLogsErr
       THEN /\ ReturnToLoop("err")
            /\ UNCHANGED << blocksProcessed, stats, v2PoolCache, v3PoolCache >>
       ELSE LET n == toBlock - fromBlock + 1
                groups == GroupSwapsByTransaction(allLogs)
                acc == AfterTransactions(
                           [stats |-> stats, totalSwaps |-> 0, totalArbitrages |-> 0],
                           groups, DOMAIN groups)
            IN  /\ blocksProcessed' = blocksProcessed + n
                /\ stats' = LogBlocksComplete(acc.stats, n, acc.totalSwaps,
                                              acc.totalArbitrages)
                /\ v2PoolCache' = CacheAfter("uniswap_v2", allLogs)
                /\ v3PoolCache' = CacheAfter("uniswap_v3", allLogs)
                /\ tick' = [tick EXCEPT !.completed = n]
                /\ pc' = "advance"
                /\ UNCHANGED inFlight
    /\ UNCHANGED << arbVars, clientVars, rng, enabled, pcD, inLog, result, swaps,
                    calls, lookup, batch,
                    cfg, lastBlock, cancelled, tickerC, statsTickerC, startErr,
                    locals, ticks, statsActive, startHead, firstFrom, cancelMid >>

\* processBlockRange up to the loop: lines 146-162
EnterRange ==
    /\ pc = "pbr"
    /\ IF GetAllSwapLogsErr
       THEN /\ ReturnToLoop("err")
            /\ UNCHANGED << blocksProcessed, rng >>
       ELSE IF Len(allLogs) = 0
       THEN LET n == toBlock - fromBlock + 1 IN
            /\ blocksProcessed' = blocksProcessed + n
            /\ tick' = [tick EXCEPT !.completed = n]
            /\ pc' = "advance"
            /\ UNCHANGED << inFlight, rng >>
       ELSE /\ rng' = [rng EXCEPT !.pending = DOMAIN GroupSwapsByTransaction(allLogs),
                                  !.totalSwaps = 0,
                                  !.totalArbitrages = 0,
                                  !.observed = << >>,
                                  !.shown = << >>]
            /\ pc' = "pbr_tx"
            /\ UNCHANGED << blocksProcessed, inFlight, tick >>
    /\ UNCHANGED << decodeVars, arbVars, clientVars, stats,
                    cfg, lastBlock, cancelled, tickerC, statsTickerC, startErr,
                    locals, ticks, statsActive, startHead, firstFrom, cancelMid >>

\* lines 165-190: the loop visits one more transaction, any of those left
RangeTransaction ==
    /\ pc = "pbr_tx"
    /\ \E txHash \in rng.pending :
         LET txSwapLogs == GroupSwapsByTransaction(allLogs)[txHash]
             txSwaps == TransactionSwaps(txSwapLogs)
             arbitrages == ChainArbitrages(txHash, txSwaps)
             acc == AfterTransaction(
                        [stats |-> stats, totalSwaps |-> rng.totalSwaps,
                         totalArbitrages |-> rng.totalArbitrages],
                        txHash, txSwapLogs)
         IN  /\ stats' = acc.stats
             /\ v2PoolCache' = CacheAfter("uniswap_v2", txSwapLogs)
             /\ v3PoolCache' = CacheAfter("uniswap_v3", txSwapLogs)
             /\ rng' = [pending |-> rng.pending \ {txHash},
                        totalSwaps |-> acc.totalSwaps,
                        totalArbitrages |-> acc.totalArbitrages,
                        observed |-> rng.observed \o
                            [i \in 1 .. Len(txSwaps) |->
                                << txSwaps[i].BlockNumber, txSwaps[i].LogIndex >>],
                        shown |-> rng.shown \o arbitrages,
                        decoded |-> rng.decoded + Len(txSwaps),
                        forwarded |-> rng.forwarded + Len(arbitrages)]
    /\ UNCHANGED << arbVars, clientVars, enabled, pcD, inLog, result, swaps,
                    calls, lookup, batch, driverVars >>

\* lines 192-202: the loop is over, LogBlockComplete for each block
RangeComplete ==
    /\ pc = "pbr_tx"
    /\ rng.pending = {}
    /\ LET n == toBlock - fromBlock + 1 IN
         /\ blocksProcessed' = blocksProcessed + n
         /\ stats' = LogBlocksComplete(stats, n, rng.totalSwaps, rng.totalArbitrages)
         /\ tick' = [tick EXCEPT !.completed = n]
    /\ pc' = "advance"
    /\ UNCHANGED << decodeVars, arbVars, clientVars, rng, inFlight,
                    cfg, lastBlock, cancelled, tickerC, statsTickerC, startErr,
                    locals, ticks, statsActive, startHead, firstFrom, cancelMid >>

(***************************************************************************)
(* eth.Client: the wrappers that retry a call of the underlying client.    *)
(* All of them are the same loop around a different call.                  *)
(***************************************************************************)
\* RPCConfig.RetryAttempts is 0..MaxRetryAttempts
MaxRetryAttempts == 3

Wrappers ==
    {"BlockNumber", "BlockByNumber", "GetLogs", "TransactionReceipt",
     "GetTransaction", "CallContract"}

\* no wrapper is being called
NoRetry ==
    [method |-> "", RetryAttempts |-> 0, i |-> 0, pc |-> "idle", ret |-> "none",
     trace |-> << >>]

ClientAtRest == retry = NoRetry

\* the loop going on while i <= RetryAttempts
LoopContinuesInclusive(i, attempts) == i <= attempts

\* the loop condition i < c.cfg.RetryAttempts
LoopContinues(i, attempts) == i < attempts

\* one pass of the loop up to the test of err: the call of the underlying
\* client, and the return of its result when it answered
RetryAttempt ==
    /\ retry.pc = "attempt"
    /\ LoopContinues(retry.i, retry.RetryAttempts)
    /\ \E ok \in BOOLEAN :
         retry' = IF ok
                  THEN [retry EXCEPT !.pc = "returned", !.ret = "ok",
                                     !.trace = Append(@, "ok")]
                  ELSE [retry EXCEPT !.pc = "sleep", !.trace = Append(@, "fail")]
    /\ UNCHANGED notClient

\* the rest of the pass: the warning, time.Sleep(RetryDelay) and i++
RetrySleep ==
    /\ retry.pc = "sleep"
    /\ retry' = [retry EXCEPT !.pc = "attempt", !.i = @ + 1,
                              !.trace = Append(@, "sleep")]
    /\ UNCHANGED notClient

\* the loop is left: the error "failed ... after %d attempts" is returned
RetryExhausted ==
    /\ retry.pc = "attempt"
    /\ ~LoopContinues(retry.i, retry.RetryAttempts)
    /\ retry' = [retry EXCEPT !.pc = "returned", !.ret = "err"]
    /\ UNCHANGED notClient

\* NewInspector: every part constructed, under any configuration
NewInspector ==
    /\ ClientAtRest
    /\ PipelineAtRest
    /\ DriverInit
    /\ NewDecoder
    /\ pcD = "idle"
    /\ inLog = NoLog
    /\ DetectorAtRest

\* only_profitable at its default
Init ==
    /\ NewInspector
    /\ ~cfg.OnlyProfitable

Next ==
    \/ Cancel
    \/ TickerFire
    \/ StatsTickerFire
    \/ Start
    \/ SelectDone
    \/ SelectStats
    \/ LogStats
    \/ SelectTicker
    \/ ProcessNewBlocksHead
    \/ GetAllSwapLogsV2
    \/ GetAllSwapLogsV3
    \/ ProcessBlockRange
    \/ AdvanceWatermark

Spec == Init /\ [][Next]_vars

\* the driver under the scheduling the code has: a call that was begun returns
\* (the retrying wrappers give up after RetryAttempts attempts), and a select
\* that finds ctx.Done() ready again and again takes it in the end (Go picks
\* among the ready cases by uniform pseudo-random selection)
Fairness ==
    /\ WF_vars(Start)
    /\ WF_vars(LogStats)
    /\ WF_vars(ProcessNewBlocksHead)
    /\ WF_vars(GetAllSwapLogsV2)
    /\ WF_vars(GetAllSwapLogsV3)
    /\ WF_vars(ProcessBlockRange)
    /\ WF_vars(AdvanceWatermark)
    /\ SF_vars(SelectDone)

SpecLive == Spec /\ Fairness

\* the driver's variables when only the decoder is exercised
DriverAtRest ==
    /\ ClientAtRest
    /\ PipelineAtRest
    /\ DriverInit
    /\ ~cfg.OnlyProfitable
    /\ cfg.StartBlock = 0
    /\ cfg.BatchSize = 1

InitDecode ==
    /\ DriverAtRest
    /\ NewDecoder
    /\ pcD = "call"
    /\ inLog \in LogInputs
    /\ DetectorAtRest

NextDecode == DecodeOne

SpecDecode == InitDecode /\ [][NextDecode]_vars

\* batches are decoded by a decoder that has both protocols enabled
InitPool ==
    /\ DriverAtRest
    /\ cfg.EnableUniswapV2
    /\ cfg.EnableUniswapV3
    /\ NewDecoder
    /\ pcD = "idle"
    /\ inLog = NoLog
    /\ DetectorAtRest

NextPool ==
    \/ BeginBatch
    \/ DecodeNext
    \/ ReturnBatch

SpecPool == InitPool /\ [][NextPool]_vars

\* a protocol decoder of its own, handed any log
InitProtocol ==
    /\ DriverAtRest
    /\ cfg.EnableUniswapV2
    /\ cfg.EnableUniswapV3
    /\ NewDecoder
    /\ pcD = "direct"
    /\ inLog \in LogInputs
    /\ DetectorAtRest

NextProtocol == DecodeProtocol

SpecProtocol == InitProtocol /\ [][NextProtocol]_vars

\* the detector handed any swap list
InitArb ==
    /\ DriverAtRest
    /\ cfg.EnableUniswapV2
    /\ cfg.EnableUniswapV3
    /\ NewDecoder
    /\ pcD = "idle"
    /\ inLog = NoLog
    /\ pcA = "call"
    /\ arbIn \in ArbInputs
    /\ arbOut = << >>
    /\ arbHist = NoHist

NextArb ==
    \/ DetectArbitrage
    \/ QueryProfitable

SpecArb == InitArb /\ [][NextArb]_vars

\* every combination of the four amounts being zero or not: a swap on poolX
\* followed by a swap on poolY, and a swap on poolZ between a plain swap on
\* poolX and a plain swap on poolY
AmountCombinations(v) ==
    [Amount0In : {0, v}, Amount1In : {0, v}, Amount0Out : {0, v}, Amount1Out : {0, v}]

FlowInputs ==
    LET plain(p) == [pool |-> p, amounts |-> [Amount0In |-> 1, Amount1In |-> 0,
                                              Amount0Out |-> 0, Amount1Out |-> 2]]
    IN  {<< MakeSwap(1, [pool |-> "poolX", amounts |-> a]),
            MakeSwap(2, [pool |-> "poolY", amounts |-> b]) >> :
            a \in AmountCombinations(1), b \in AmountCombinations(2)}
        \cup
        {<< MakeSwap(1, plain("poolX")),
            MakeSwap(2, [pool |-> "poolZ", amounts |-> a]),
            MakeSwap(3, plain("poolY")) >> : a \in AmountCombinations(1)}

InitFlow ==
    /\ DriverAtRest
    /\ cfg.EnableUniswapV2
    /\ cfg.EnableUniswapV3
    /\ NewDecoder
    /\ pcD = "idle"
    /\ inLog = NoLog
    /\ pcA = "call"
    /\ arbIn \in FlowInputs
    /\ arbOut = << >>
    /\ arbHist = NoHist

NextFlow == DetectArbitrage

SpecFlow == InitFlow /\ [][NextFlow]_vars

\* the driver with the loop of processBlockRange taken one transaction at a
\* time and no cancellation; both protocols are enabled and the inspector
\* starts at block 1
InitRange ==
    /\ NewInspector
    /\ cfg.StartBlock = 1
    /\ cfg.EnableUniswapV2
    /\ cfg.EnableUniswapV3

NextRange ==
    \/ TickerFire
    \/ StatsTickerFire
    \/ Start
    \/ SelectStats
    \/ LogStats
    \/ SelectTicker
    \/ ProcessNewBlocksHead
    \/ GetAllSwapLogsV2
    \/ GetAllSwapLogsV3
    \/ EnterRange
    \/ RangeTransaction
    \/ RangeComplete
    \/ AdvanceWatermark

SpecRange == InitRange /\ [][NextRange]_vars

\* a wrapper is called, with any configured attempt count
InitRetry ==
    /\ PipelineAtRest
    /\ DriverInit
    /\ ~cfg.OnlyProfitable
    /\ cfg.StartBlock = 0
    /\ cfg.BatchSize = 1
    /\ cfg.EnableUniswapV2
    /\ cfg.EnableUniswapV3
    /\ NewDecoder
    /\ pcD = "idle"
    /\ inLog = NoLog
    /\ DetectorAtRest
    /\ \E m \in Wrappers, n \in 0 .. MaxRetryAttempts :
         retry = [NoRetry EXCEPT !.method = m, !.RetryAttempts = n, !.pc = "attempt"]

NextRetry ==
    \/ RetryAttempt
    \/ RetrySleep
    \/ RetryExhausted

SpecRetry == InitRetry /\ [][NextRetry]_vars



(***************************************************************************)
(* Claims about the driver, checked under Spec.                            *)
(***************************************************************************)

C2_FailedFetchAbandonsRange ==
    (tick.v2Failed \/ tick.v3Failed) =>
        /\ tick.completed = 0
        /\ tick.state # "ok"
        /\ lastBlock = tick.pre

\* C3: the range of a poll tick is [watermark+1, min(head, watermark+batchSize)],
\* it holds at most batchSize blocks, and a tick whose head is below watermark+1
\* fetches nothing and leaves the watermark alone.
C3_RangeIsBatchBounded ==
    /\ tick.hasRange =>
          /\ fromBlock = (tick.pre + 1) % Modulus
          /\ toBlock = Min(tick.head, (tick.pre + cfg.BatchSize) % Modulus)
          /\ toBlock - fromBlock + 1 <= cfg.BatchSize
    /\ tick.state = "noop" =>
          /\ ~tick.hasRange
          /\ tick.completed = 0
          /\ lastBlock = tick.pre

\* C4: when cancellation arrives while a range is in progress, the control loop
\* exits with the watermark at its pre-range value.
C4_CancelMidRangeKeepsWatermark ==
    (pc = "stopped" /\ cancelMid.set) => lastBlock = cancelMid.pre

\* C5: at most one processNewBlocks invocation is in progress, no statistics
\* emission runs beside it, and the loop has exited only with neither in
\* progress.
C5_OneActivityAtATime ==
    /\ inFlight <= 1
    /\ statsActive => inFlight = 0
    /\ pc = "stopped" => (inFlight = 0 /\ ~statsActive)

\* C5 witness: a range is being processed while a poll tick, a statistics tick
\* and the cancellation signal are all waiting for the loop.
C5_Witness ==
    /\ inFlight = 1
    /\ InRange
    /\ tickerC
    /\ statsTickerC
    /\ cancelled

\* C6: after a successful startup lookup the watermark is StartBlock-1, or
\* head-1 in unsigned arithmetic when no start block is configured, and the
\* first range processed begins at StartBlock, or at the startup head; a failed
\* startup lookup makes Start return without ever polling.
C6_FirstRangeStartsAtStartBlockOrHead ==
    /\ (startHead.set /\ blocksProcessed = 0) =>
          lastBlock = IF cfg.StartBlock > 0 THEN cfg.StartBlock - 1
                      ELSE (startHead.val - 1) % Modulus
    /\ firstFrom.set =>
          firstFrom.val = IF cfg.StartBlock > 0 THEN cfg.StartBlock
                          ELSE startHead.val
    /\ startErr =>
          /\ pc = "stopped"
          /\ ~startHead.set
          /\ ticks = 0
          /\ blocksProcessed = 0

\* C6 witness: no start block configured, the startup head was 0 (the watermark
\* wrapped to the largest unsigned value) and the first range began at block 0.
C6_Witness ==
    /\ cfg.StartBlock = 0
    /\ startHead.set
    /\ startHead.val = 0
    /\ firstFrom.set
    /\ firstFrom.val = 0
    /\ tick.state = "ok"

(***************************************************************************)
(* Claims about the pool metadata cache, checked under SpecPool.           *)
(***************************************************************************)

\* C7 as stated: for each protocol decoder and each pool, every metadata call
\* (token0, token1, fee) is issued at most once in the decoder's lifetime, and
\* a cache entry once inserted is never mutated or evicted.
C7_MetadataCallsAtMostOnce ==
    [][ \A d \in Decoders, p \in Pools :
          /\ \A sel \in Selectors : calls'[d][p][sel] <= 1
          /\ p \in DOMAIN PoolCache(d) =>
                /\ p \in DOMAIN PoolCache(d)'
                /\ PoolCache(d)'[p] = PoolCache(d)[p] ]_vars

\* C7 amended: once a lookup of a pool has succeeded and its entry is cached,
\* every later lookup of that pool in that decoder returns the cached value,
\* unchanged, without issuing any call, and the entry is never mutated or
\* evicted; a pool whose lookup failed has no entry, so its calls may be
\* issued again by the next lookup.
C7_CachedPoolIsNeverRefetched ==
    [][ \A d \in Decoders, p \in Pools :
          p \in DOMAIN PoolCache(d) =>
             /\ p \in DOMAIN PoolCache(d)'
             /\ PoolCache(d)'[p] = PoolCache(d)[p]
             /\ calls'[d][p] = calls[d][p]
             /\ (lookup'.n # lookup.n /\ lookup'.dec = d /\ lookup'.pool = p) =>
                   /\ lookup'.hit
                   /\ ~lookup'.err
                   /\ lookup'.info = PoolCache(d)[p] ]_vars

\* C7 witness: a pool whose first lookup failed after token0 had answered was
\* looked up again, cached, and then served from the cache.
C7_Witness ==
    /\ lookup.n >= 3
    /\ lookup.hit
    /\ lookup.dec = "uniswap_v3"
    /\ calls["uniswap_v3"][lookup.pool] =
          [sel \in Selectors |-> IF sel = "token0" THEN 2 ELSE 1]

\* C8: when a metadata call issued by a lookup fails or answers with fewer
\* than 32 bytes, the lookup returns an error; a lookup that returns an error
\* leaves both pool caches exactly as they were, the log yields no swap, and
\* the loop goes on to the other logs of the batch.
C8_FailedLookupSkipsOnlyThatSwap ==
    [][ lookup'.n # lookup.n =>
          /\ lookup'.failed # {} => lookup'.err
          /\ lookup'.err =>
                /\ v2PoolCache' = v2PoolCache
                /\ v3PoolCache' = v3PoolCache
                /\ result'.kind = "err"
                /\ swaps' = swaps
                /\ pcD' = "loop" ]_vars

\* C8 witness: a batch returned in which a lookup failed on a short fee answer
\* and a later log of the same batch was decoded into a swap.
C8_Witness ==
    /\ pcD = "returned"
    /\ batch.failed
    /\ batch.after
    /\ Len(swaps) >= 1
    /\ \E p \in Pools : calls["uniswap_v3"][p]["fee"] >= 1 /\ p \notin DOMAIN v3PoolCache

(***************************************************************************)
(* Claims about the decoded amounts, checked under SpecDecode.             *)
(***************************************************************************)

\* the signed integer whose two's-complement word is w
TwosComplement(w) ==
    CHOOSE v \in -(WordMod \div 2) .. (WordMod \div 2) - 1 : EncodeWord(v) = w

\* the In/Out pair a signed amount has to be split into
SplitIsBySign(a, in, out) ==
    /\ a < 0 => (out = -a /\ in = 0)
    /\ a > 0 => (in = a /\ out = 0)
    /\ a = 0 => (in = 0 /\ out = 0)

\* C9: a swap decoded from a tick-based log reads amount0, amount1 and tick as
\* two's-complement words: a negative amount0 gives amount0Out = -amount0 and
\* amount0In = 0, a positive one amount0In = amount0 and amount0Out = 0, zero
\* gives both 0; likewise for amount1; tick is the signed value of its word.
C9_SignedWordsResolveByTwosComplement ==
    (result.kind = "swap" /\ result.swap.Protocol = "uniswap_v3") =>
        /\ SplitIsBySign(TwosComplement(inLog.Data[1]),
                         result.swap.Amount0In, result.swap.Amount0Out)
        /\ SplitIsBySign(TwosComplement(inLog.Data[2]),
                         result.swap.Amount1In, result.swap.Amount1Out)
        /\ result.swap.Tick = TwosComplement(inLog.Data[5])

\* C9 witness: a tick-based swap with a negative amount0, a positive amount1
\* and a negative tick.
C9_Witness ==
    /\ result.kind = "swap"
    /\ result.swap.Protocol = "uniswap_v3"
    /\ inLog.Data[1] = EncodeWord(-1)
    /\ result.swap.Amount0Out = 1
    /\ result.swap.Amount1In = 1
    /\ result.swap.Tick = -1

\* C10: every swap either protocol decoder produces has amount0In, amount1In,
\* amount0Out and amount1Out all >= 0, whatever the payload words are; in a
\* tick-based swap at most one of the In and Out amounts of a token is nonzero.
C10_AmountsAreNeverNegative ==
    result.kind = "swap" =>
        /\ result.swap.Amount0In >= 0
        /\ result.swap.Amount1In >= 0
        /\ result.swap.Amount0Out >= 0
        /\ result.swap.Amount1Out >= 0
        /\ result.swap.Protocol = "uniswap_v3" =>
              /\ (result.swap.Amount0In = 0 \/ result.swap.Amount0Out = 0)
              /\ (result.swap.Amount1In = 0 \/ result.swap.Amount1Out = 0)

\* C10 witness: a tick-based swap whose amount0 and amount1 words both hold
\* the most negative signed value.
C10_Witness ==
    /\ result.kind = "swap"
    /\ result.swap.Protocol = "uniswap_v3"
    /\ TopBitSet(inLog.Data[1])
    /\ TopBitSet(inLog.Data[2])
    /\ result.swap.Amount0Out = WordMod \div 2
    /\ result.swap.Amount1Out = WordMod \div 2
    /\ result.swap.Amount0In = 0
    /\ result.swap.Amount1In = 0

(***************************************************************************)
(* Claims about log validation, checked under SpecProtocol.                *)
(***************************************************************************)

\* C11: DecodeSwapLog of a protocol decoder returns a decode error and no swap
\* (and looks no pool up) whenever the log has fewer than 3 topics or its
\* payload is shorter than 128 bytes (simple-curve) or 160 bytes (tick-based);
\* a log with the decoder's signature that meets both minimums passes
\* validation: the pool is looked up, and only that lookup can still fail.
C11_ShortLogsAreRejected ==
    pcD = "done" =>
        LET min == IF result.dec = "uniswap_v2" THEN 128 ELSE 160
            sig == IF result.dec = "uniswap_v2" THEN V2SwapEventSignature
                   ELSE V3SwapEventSignature
            short == Len(inLog.Topics) < 3 \/ WordBytes * Len(inLog.Data) < min
        IN  /\ result.dec \in Decoders
            /\ short =>
                  /\ result.kind = "err"
                  /\ result.swap = NoSwap
                  /\ lookup.n = 0
            /\ (~short /\ inLog.Topics[1] = sig) =>
                  /\ lookup.n = 1
                  /\ result.kind = "swap" \/ (result.kind = "err" /\ lookup.err)

\* C11 witness: the tick-based decoder rejected a log with three topics and
\* its own signature whose 128-byte payload would do for the other protocol.
C11_Witness ==
    /\ pcD = "done"
    /\ result.dec = "uniswap_v3"
    /\ Len(inLog.Topics) = 3
    /\ inLog.Topics[1] = V3SwapEventSignature
    /\ WordBytes * Len(inLog.Data) = 128
    /\ result.kind = "err"
    /\ lookup.n = 0

(***************************************************************************)
(* Claims about DecodeSwapsForTransaction, checked under SpecPool.         *)
(***************************************************************************)

\* C12: every log visited by DecodeSwapsForTransaction adds its swap to the
\* result exactly when its DecodeSwapLog call produced a swap, and whatever
\* that call returned the loop goes on to the next log; the call returns
\* only when the logs are exhausted, with the swaps collected so far sorted
\* by log index, and with no error.
C12_ReturnsExactlyTheDecodedSwaps ==
    [][ /\ batch'.n = batch.n + 1 =>
              /\ swaps' = IF result'.kind = "swap"
                          THEN Append(swaps, result'.swap) ELSE swaps
              /\ pcD' = "loop"
        /\ (pcD # "returned" /\ pcD' = "returned") =>
              /\ pcD = "loop"
              /\ swaps' = SortSwaps(swaps)
              /\ Len(swaps') = batch.ok
              /\ {swaps'[i].LogIndex : i \in 1 .. Len(swaps')} \subseteq batch.used
              /\ ~batch'.retErr ]_vars

\* C12 witness: a batch of two logs returned one swap and no error: the log
\* with the higher index decoded first, the other one then failed validation.
C12_Witness ==
    /\ pcD = "returned"
    /\ batch.n = 2
    /\ batch.errs = 1
    /\ ~batch.failed
    /\ ~batch.retErr
    /\ Len(swaps) = 1
    /\ swaps[1].LogIndex = 1

\* C13: when DecodeSwapLog returned an error for a log of a transaction (bad
\* topic count, bad payload length or a pool-metadata failure), the error has
\* been reported through LogError by the time the transaction is done.
C13_EveryDecodeErrorIsReported ==
    (pcD = "returned" /\ batch.errs > 0) => batch.reported >= 1

(***************************************************************************)
(* Claims about the arbitrage detector, checked under SpecArb.             *)
(***************************************************************************)

CyclicFindings == SelectSeq(arbOut, LAMBDA a : a.kind = "cyclic")
CrossFindings == SelectSeq(arbOut, LAMBDA a : a.kind = "cross_dex")

\* the swaps of s are in ascending log-index order
Ascending(s) == \A i \in 1 .. Len(s) - 1 : s[i].LogIndex < s[i + 1].LogIndex

Elements(s) == {s[i] : i \in 1 .. Len(s)}

\* the swap of the set with the lowest log index
Lowest(set) == CHOOSE x \in set : \A y \in set : x.LogIndex <= y.LogIndex

\* C14: when the n >= 2 swaps of the list, taken in log-index order, each have
\* a flow and the flows form one connected cycle T1 -> ... -> T1 whose last
\* amount out exceeds its first amount in, exactly one cyclic finding is
\* produced: its path is the whole list in log-index order, its start, end
\* and profit token are T1, its profit is lastOut - firstIn and its
\* arbitrageur is the sender of the swap with the lowest log index.
C14_CycleYieldsOneCyclicFinding ==
    pcA = "done" =>
        LET n == Len(arbIn)
            flow(i) == TokenFlow(arbIn[i])
        IN  ( /\ n >= 2
              /\ \A i \in 1 .. n : ValidFlow(flow(i))
              /\ \A i \in 1 .. n - 1 : flow(i).tokenOut = flow(i + 1).tokenIn
              /\ flow(n).tokenOut = flow(1).tokenIn
              /\ flow(n).amountOut > flow(1).amountIn )
            =>
            /\ Len(CyclicFindings) = 1
            /\ LET a == CyclicFindings[1] IN
                  /\ Len(a.Path) = n
                  /\ Elements(a.Path) = Elements(arbHist.given)
                  /\ Len(arbHist.given) = n
                  /\ Ascending(a.Path)
                  /\ a.TokenStart = flow(1).tokenIn
                  /\ a.TokenEnd = flow(1).tokenIn
                  /\ a.ProfitToken = flow(1).tokenIn
                  /\ a.Profit = flow(n).amountOut - flow(1).amountIn
                  /\ a.Arbitrageur = Lowest(Elements(arbHist.given)).Sender

\* C14 witness: a cycle WETH -> TokenC -> TokenB -> WETH over three pools was
\* reported with profit 1.
C14_Witness ==
    /\ pcA = "done"
    /\ Len(CyclicFindings) = 1
    /\ Len(CyclicFindings[1].Path) = 3
    /\ CyclicFindings[1].TokenStart = WETH
    /\ CyclicFindings[1].Profit = 1
    /\ {CyclicFindings[1].Path[i].Pool : i \in 1 .. 3} = {"poolX", "poolZ", "poolW"}

\* C15: when the valid flows of the list number fewer than 2, or some flow's
\* token out differs from the next flow's token in, or the first token in
\* differs from the last token out, or the last amount out does not exceed
\* the first amount in, no cyclic finding is produced.
C15_BrokenCycleYieldsNoCyclicFinding ==
    pcA = "done" =>
        LET flows == Flows(arbIn)
            k == Len(flows)
        IN  ( \/ k < 2
              \/ \E i \in 1 .. k - 1 : flows[i].tokenOut # flows[i + 1].tokenIn
              \/ flows[1].tokenIn # flows[k].tokenOut
              \/ flows[k].amountOut <= flows[1].amountIn )
            => CyclicFindings = << >>

\* C15 witness: three flows WETH -> TokenC, TokenC -> TokenB, TokenC -> WETH:
\* first and last token match, the first and the third swap form a
\* profitable cycle of their own, and nothing cyclic was reported.
C15_Witness ==
    /\ pcA = "done"
    /\ Len(arbIn) = 3
    /\ Len(Flows(arbIn)) = 3
    /\ Flows(arbIn)[1].tokenIn = WETH
    /\ Flows(arbIn)[1].tokenOut = TokenC
    /\ Flows(arbIn)[2].tokenOut = TokenB
    /\ Flows(arbIn)[3].tokenIn = TokenC
    /\ Flows(arbIn)[3].tokenOut = WETH
    /\ Flows(arbIn)[3].amountOut > Flows(arbIn)[1].amountIn
    /\ CyclicFindings = << >>

\* C16: every finding DetectArbitrage returns has a profit above zero, equal
\* to its amount out minus its amount in.
C16_ProfitIsPositive ==
    \A i \in 1 .. Len(arbOut) :
        /\ arbOut[i].Profit > 0
        /\ arbOut[i].Profit = arbOut[i].AmountOut - arbOut[i].AmountIn

\* C16 witness: one transaction reported both as a cycle and across venues.
C16_Witness ==
    /\ pcA = "done"
    /\ CyclicFindings # << >>
    /\ CrossFindings # << >>

\* the cross-venue findings whose legs belong to the group of key
CrossFor(key) == SelectSeq(CrossFindings, LAMBDA a : PairKey(a.Path[1]) = key)

PoolsOf(s) == {s[i].Pool : i \in 1 .. Len(s)}

\* C17: a pair whose swaps all sit on one pool yields no cross-venue
\* finding, and the two legs of every cross-venue finding are on different
\* pools.
C17_CrossLegsAreOnTwoPools ==
    pcA = "done" =>
        /\ \A key \in DOMAIN arbHist.pairSwaps :
              Cardinality(PoolsOf(arbHist.pairSwaps[key])) = 1 => CrossFor(key) = << >>
        /\ \A i \in 1 .. Len(CrossFindings) :
              /\ Len(CrossFindings[i].Path) = 2
              /\ CrossFindings[i].Path[1].Pool # CrossFindings[i].Path[2].Pool

\* C17 witness: a pair traded twice on one pool, once spending WETH and once
\* receiving more WETH than was spent, and nothing reported across venues.
C17_Witness ==
    /\ pcA = "done"
    /\ CrossFindings = << >>
    /\ \E key \in DOMAIN arbHist.pairSwaps :
          LET g == arbHist.pairSwaps[key] IN
          /\ Len(g) = 2
          /\ Cardinality(PoolsOf(g)) = 1
          /\ \E i, j \in 1 .. 2 :
                /\ SpendsWETH(g[i])
                /\ TouchesWETH(g[j]) /\ ~SpendsWETH(g[j])
                /\ g[j].Amount0Out + g[j].Amount1Out > g[i].Amount0In + g[i].Amount1In

\* the WETH a swap spends and the WETH it receives
WethSpent(x) == IF x.Token0 = WETH THEN x.Amount0In ELSE x.Amount1In
WethReceived(x) == IF x.Token0 = WETH THEN x.Amount0Out ELSE x.Amount1Out

\* the swaps of group s that spend WETH, and those that involve WETH without
\* spending it
BuyLegs(s) == {x \in Elements(s) : WETH \in {x.Token0, x.Token1} /\ WethSpent(x) > 0}
SellLegs(s) == {x \in Elements(s) : WETH \in {x.Token0, x.Token1} /\ WethSpent(x) = 0}

\* the finding the claim describes for a buy leg and a sell leg
IsCrossFindingOf(a, buy, sell) ==
    /\ a.kind = "cross_dex"
    /\ a.Path = << buy, sell >>
    /\ a.TokenStart = WETH
    /\ a.TokenEnd = WETH
    /\ a.ProfitToken = WETH
    /\ a.Profit = WethReceived(sell) - WethSpent(buy)

\* no leg of a cross-venue finding is a swap that leaves WETH out
LegsInvolveWETH ==
    \A i \in 1 .. Len(CrossFindings) :
        \A k \in 1 .. Len(CrossFindings[i].Path) : TouchesWETH(CrossFindings[i].Path[k])

\* C18: for a pair holding a buy leg (spends a WETH) on pool X and a sell leg
\* (involves WETH without spending it, receives b WETH) on a pool Y # X with
\* b > a, exactly one cross-venue finding is produced for the pair, with
\* profit b - a, path [buy leg, sell leg] and WETH as start, end and profit
\* token; swaps not involving WETH never become a leg.
C18_AnyBuyAndSellLegAreReported ==
    pcA = "done" =>
        /\ LegsInvolveWETH
        /\ \A key \in DOMAIN arbHist.pairSwaps :
              \A buy \in BuyLegs(arbHist.pairSwaps[key]) :
              \A sell \in SellLegs(arbHist.pairSwaps[key]) :
                 (buy.Pool # sell.Pool /\ WethReceived(sell) > WethSpent(buy))
                 => /\ Len(CrossFor(key)) = 1
                    /\ IsCrossFindingOf(CrossFor(key)[1], buy, sell)

\* C18 as amended: the legs are the first swap of the pair, in log-index
\* order, that spends WETH and the first that involves WETH without spending
\* it.  When these two are on different pools and b > a, exactly one
\* cross-venue finding is produced for the pair, with profit b - a, path
\* [buy leg, sell leg] and WETH as start, end and profit token; otherwise
\* none is produced for the pair.  Swaps not involving WETH never become a
\* leg.
C18_FirstBuyAndFirstSellLegAreReported ==
    pcA = "done" =>
        /\ LegsInvolveWETH
        /\ \A key \in DOMAIN arbHist.pairSwaps :
              LET buys == BuyLegs(arbHist.pairSwaps[key])
                  sells == SellLegs(arbHist.pairSwaps[key])
              IN  IF /\ buys # {}
                     /\ sells # {}
                     /\ Lowest(buys).Pool # Lowest(sells).Pool
                     /\ WethReceived(Lowest(sells)) > WethSpent(Lowest(buys))
                  THEN /\ Len(CrossFor(key)) = 1
                       /\ IsCrossFindingOf(CrossFor(key)[1], Lowest(buys), Lowest(sells))
                  ELSE CrossFor(key) = << >>

\* C18 witness: a pair with two buy legs and one sell leg, reported with the
\* earlier buy leg although the sell leg precedes it in the log.
C18_Witness ==
    /\ pcA = "done"
    /\ Len(CrossFindings) = 1
    /\ LET a == CrossFindings[1]
           g == arbHist.pairSwaps[PairKey(a.Path[1])]
       IN  /\ Cardinality(BuyLegs(g)) = 2
           /\ Cardinality(SellLegs(g)) = 1
           /\ a.Path[2].LogIndex < a.Path[1].LogIndex
           /\ a.Profit = 1

C20_NetProfitIsGrossMinusGasCost ==
    pcA = "done" =>
        \A i \in 1 .. Len(arbOut) :
            arbOut[i].fetched = "both" =>
                /\ arbOut[i].GasUsed = arbHist.gas.used
                /\ arbOut[i].GasPrice = Set(arbHist.gas.price)
                /\ arbOut[i].NetProfitWei =
                      Set(arbOut[i].Profit - arbHist.gas.used * arbHist.gas.price)

\* C21: a finding whose receipt fetch or transaction fetch failed is returned
\* all the same, with net profit unset, and IsProfitable answers true for it
\* exactly when its gross profit is above zero; for a finding whose net
\* profit is set, IsProfitable answers true exactly when the net profit is
\* above zero.
C21_FailedFetchFallsBackToGrossProfit ==
    pcA \in {"done", "asked"} =>
        /\ Len(arbOut) =
              Len(detectCyclicArbitrage(arbIn))
              + Cardinality({key \in DOMAIN arbHist.pairSwaps :
                                CrossForPair(arbHist.pairSwaps[key]) # << >>})
        /\ \A i \in 1 .. Len(arbOut) :
              arbOut[i].NetProfitWei.set <=> arbOut[i].fetched = "both"
        /\ arbHist.query.asked =>
              LET a == arbOut[arbHist.query.index] IN
              arbHist.query.answer =
                 IF a.fetched = "both" THEN a.NetProfitWei.val > 0 ELSE a.Profit > 0

\* C21 witness: the transaction fetch of a finding failed after its receipt
\* fetch had answered, and IsProfitable said yes on its gross profit.
C21_Witness ==
    /\ pcA = "asked"
    /\ arbOut[arbHist.query.index].fetched = "receipt"
    /\ arbOut[arbHist.query.index].NetProfitWei = Unset
    /\ arbOut[arbHist.query.index].GasUsed > 0
    /\ arbHist.query.answer

\* the swaps of a set listed by ascending log index
RECURSIVE ByLogIndex(_)
ByLogIndex(set) ==
    IF set = {} THEN << >>
    ELSE << Lowest(set) >> \o ByLogIndex(set \ {Lowest(set)})

\* what the claim compares of a finding: path, tokens, amounts, gross profit
Essence(a) ==
    [kind |-> a.kind, Path |-> a.Path, Arbitrageur |-> a.Arbitrageur,
     TokenStart |-> a.TokenStart, TokenEnd |-> a.TokenEnd,
     AmountIn |-> a.AmountIn, AmountOut |-> a.AmountOut,
     Profit |-> a.Profit, ProfitToken |-> a.ProfitToken]

\* the findings of a set of swaps, whatever the order they are handed over in
\* and whatever the order the pair map is walked in
FindingsOf(set) ==
    LET sorted == ByLogIndex(set)
        groups == PairSwaps(sorted)
    IN  {Essence(a) : a \in Elements(detectCyclicArbitrage(sorted))}
        \cup UNION {{Essence(a) : a \in Elements(CrossForPair(groups[key]))} :
                      key \in DOMAIN groups}

\* C23: the findings DetectArbitrage returns are a function of the set of
\* swaps it is given: whatever the order of the list (and so also for the
\* list a previous call left sorted) and whatever the order the pair map is
\* walked in, the same findings come back, each once.
C23_FindingsDependOnTheSwapsOnly ==
    pcA = "done" =>
        /\ {Essence(arbOut[i]) : i \in 1 .. Len(arbOut)}
              = FindingsOf(Elements(arbHist.given))
        /\ Len(arbOut) = Cardinality(FindingsOf(Elements(arbHist.given)))

\* C23 witness: two swaps handed over in descending log-index order gave a
\* cyclic and a cross-venue finding.
C23_Witness ==
    /\ pcA = "done"
    /\ Len(arbHist.given) = 2
    /\ arbHist.given[1].LogIndex > arbHist.given[2].LogIndex
    /\ CyclicFindings # << >>
    /\ CrossFindings # << >>

(***************************************************************************)
(* Claims about the token flows, checked under SpecFlow.                   *)
(***************************************************************************)

\* the token a swap takes in and the token it gives out, by the priority rule
RuleTokens(x) ==
    IF x.Amount0In > 0 /\ x.Amount1Out > 0 THEN << x.Token0, x.Token1 >>
    ELSE IF x.Amount1In > 0 /\ x.Amount0Out > 0 THEN << x.Token1, x.Token0 >>
    ELSE << IF x.Amount0In > 0 THEN x.Token0
            ELSE IF x.Amount1In > 0 THEN x.Token1 ELSE ZeroAddress,
            IF x.Amount0Out > 0 THEN x.Token0
            ELSE IF x.Amount1Out > 0 THEN x.Token1 ELSE ZeroAddress >>

Resolved(x) == RuleTokens(x)[1] # ZeroAddress /\ RuleTokens(x)[2] # ZeroAddress

\* C27: the flows detectCyclicArbitrage works on are those of the swaps, in
\* order, whose token in and token out the priority rule both resolves, with
\* the rule's tokens; a swap with a side unresolved gives no flow, and a
\* cyclic finding starts at the first kept flow's token in and ends at the
\* last kept flow's token out.
C27_FlowsFollowThePriorityRule ==
    (pcA = "done" /\ Len(arbIn) >= 2) =>
        LET kept == SelectSeq(arbIn, Resolved)
            flows == arbHist.flows
        IN  /\ Len(flows) = Len(kept)
            /\ \A i \in 1 .. Len(kept) :
                  << flows[i].tokenIn, flows[i].tokenOut >> = RuleTokens(kept[i])
            /\ \A i \in 1 .. Len(CyclicFindings) :
                  /\ Len(kept) >= 2
                  /\ CyclicFindings[i].TokenStart = RuleTokens(kept[1])[1]
                  /\ CyclicFindings[i].TokenEnd = RuleTokens(kept[Len(kept)])[2]

\* C27 witness: of three swaps the middle one takes token0 in and gives
\* nothing out, so its token out is unresolved and it has no flow; the two
\* swaps around it were reported as a cycle.
C27_Witness ==
    /\ pcA = "done"
    /\ Len(arbIn) = 3
    /\ arbIn[2].Amount0In > 0
    /\ arbIn[2].Amount0Out = 0
    /\ arbIn[2].Amount1Out = 0
    /\ Len(arbHist.flows) = 2
    /\ Len(CyclicFindings) = 1
    /\ Len(CyclicFindings[1].Path) = 3

(***************************************************************************)
(* Claims about the dispatch of the unified decoder, checked under         *)
(* SpecDecode.                                                             *)
(***************************************************************************)

\* the protocol whose swap signature is the first topic of the log, if any
SignatureOf(log) ==
    IF Len(log.Topics) = 0 THEN "none"
    ELSE IF log.Topics[1] = V2SwapEventSignature THEN "uniswap_v2"
    ELSE IF log.Topics[1] = V3SwapEventSignature THEN "uniswap_v3"
    ELSE "none"

IsEnabled(d) == IF d = "uniswap_v2" THEN enabled.v2 ELSE enabled.v3

\* C26: DecodeSwapLog returns no swap and no error, and runs no protocol
\* decoder, for a log without topics, for a log whose first topic is neither
\* swap signature and for a log whose signature is that of a disabled
\* decoder; a log reaches the V2 decoder only on the V2 signature and the V3
\* decoder only on the V3 signature, and a log with the signature of an
\* enabled decoder does reach it.
C26_DispatchIsBySignature ==
    pcD \in {"again", "done"} =>
        LET d == SignatureOf(inLog) IN
        IF d = "none" \/ ~IsEnabled(d)
        THEN result = NoResult /\ lookup.n = 0
        ELSE result.dec = d

\* C26 witness: a well-formed V2 swap log was handed to a decoder whose V2
\* decoder is disabled and whose V3 decoder is enabled; nothing came back.
C26_Witness ==
    /\ pcD = "done"
    /\ SignatureOf(inLog) = "uniswap_v2"
    /\ Len(inLog.Topics) = 3
    /\ Len(inLog.Data) = 4
    /\ ~enabled.v2
    /\ enabled.v3
    /\ result = NoResult

(***************************************************************************)
(* Claims about the retrying wrappers, checked under SpecRetry.            *)
(***************************************************************************)

\* the five wrappers the pipeline calls
PipelineWrappers ==
    {"BlockNumber", "GetLogs", "CallContract", "TransactionReceipt", "GetTransaction"}

IsAttempt(e) == e \in {"ok", "fail"}

AttemptsMade == Cardinality({k \in 1 .. Len(retry.trace) : IsAttempt(retry.trace[k])})

\* C22: a wrapper configured with N >= 1 attempts makes at most N attempts of
\* the underlying call; an attempt that answers is the last event of the
\* call and its result is returned; every attempt but the first comes right
\* after a delay and every failed attempt is followed by the delay before
\* anything else happens; the error is returned only after N attempts, all
\* of them failed.
C22_RetriesAreBoundedAndDelayed ==
    (retry.method \in PipelineWrappers /\ retry.RetryAttempts >= 1) =>
        LET t == retry.trace IN
        /\ AttemptsMade <= retry.RetryAttempts
        /\ \A k \in 1 .. Len(t) :
              /\ t[k] = "ok" => (k = Len(t) /\ retry.ret = "ok")
              /\ (IsAttempt(t[k]) /\ k > 1) => t[k - 1] = "sleep"
              /\ (t[k] = "fail" /\ k < Len(t)) => t[k + 1] = "sleep"
        /\ retry.ret = "ok" => (t # << >> /\ t[Len(t)] = "ok")
        /\ retry.ret = "err" =>
              /\ AttemptsMade = retry.RetryAttempts
              /\ \A k \in 1 .. Len(t) : t[k] # "ok"

\* C22 witness: with three attempts configured the log fetch answered at its
\* third attempt, after two failures and two delays.
C22_Witness ==
    /\ retry.method = "GetLogs"
    /\ retry.RetryAttempts = 3
    /\ retry.ret = "ok"
    /\ retry.trace = << "fail", "sleep", "fail", "sleep", "ok" >>

(***************************************************************************)
(* C24: within one processed range the swaps are observed (decoded, handed *)
(* to LogSwap and to the detector) in non-decreasing (block number, log    *)
(* index) order across all the transactions of the range.                  *)
(***************************************************************************)
PositionLeq(a, b) == a[1] < b[1] \/ (a[1] = b[1] /\ a[2] <= b[2])

C24_SwapsObservedInLogOrder ==
    \A i, j \in 1 .. Len(rng.observed) :
        i < j => PositionLeq(rng.observed[i], rng.observed[j])

(***************************************************************************)
(* C25: GetAllSwapLogs returns the logs its enabled protocol decoders      *)
(* returned (a decoder whose fetch failed returned none), none of a        *)
(* disabled decoder, in ascending (block number, log index) order; and     *)
(* GroupSwapsByTransaction partitions them by transaction hash, every log  *)
(* in exactly one group, each group in ascending log-index order.          *)
(***************************************************************************)
ReturnedLogs ==
    {[BlockNumber |-> b, Index |-> 1, TxHash |-> b, Protocol |-> "uniswap_v2"] :
        b \in {c \in fromBlock .. toBlock : cfg.EnableUniswapV2 /\ ~tick.v2Failed}}
    \cup
    {[BlockNumber |-> b, Index |-> 0, TxHash |-> b, Protocol |-> "uniswap_v3"] :
        b \in {c \in fromBlock .. toBlock : cfg.EnableUniswapV3 /\ ~tick.v3Failed}}

StrictlyAscendingLogs(s) ==
    \A i, j \in 1 .. Len(s) :
        i < j => \/ s[i].BlockNumber < s[j].BlockNumber
                 \/ s[i].BlockNumber = s[j].BlockNumber /\ s[i].Index < s[j].Index

C25_LogsAreSortedAndPartitioned ==
    pc = "pbr" =>
        LET groups == GroupSwapsByTransaction(allLogs) IN
        /\ {allLogs[i] : i \in 1 .. Len(allLogs)} = ReturnedLogs
        /\ Len(allLogs) = Cardinality(ReturnedLogs)
        /\ StrictlyAscendingLogs(allLogs)
        /\ \A i \in 1 .. Len(allLogs) :
             /\ allLogs[i].TxHash \in DOMAIN groups
             /\ \A h \in DOMAIN groups :
                  Cardinality({k \in 1 .. Len(groups[h]) : groups[h][k] = allLogs[i]})
                      = IF h = allLogs[i].TxHash THEN 1 ELSE 0
        /\ \A h \in DOMAIN groups :
             /\ groups[h] # << >>
             /\ \A k \in 1 .. Len(groups[h]) :
                  /\ groups[h][k].TxHash = h
                  /\ \E i \in 1 .. Len(allLogs) : allLogs[i] = groups[h][k]
             /\ StrictlyAscendingLogs(groups[h])

\* both decoders returned the logs of a range of two blocks: four logs, two
\* transactions of two logs each
C25_Witness ==
    /\ pc = "pbr"
    /\ toBlock = fromBlock + 1
    /\ cfg.EnableUniswapV2 /\ ~tick.v2Failed
    /\ cfg.EnableUniswapV3 /\ ~tick.v3Failed
    /\ Len(allLogs) = 4
    /\ Cardinality(DOMAIN GroupSwapsByTransaction(allLogs)) = 2

(***************************************************************************)
(* C28: a statistics tick leaves the processing state unchanged: the       *)
(* watermark, the running counters (blocks processed, swaps seen, findings *)
(* count, cumulative gross and net profit) and both pool-metadata caches   *)
(* have the same values after LogStats as before it.                       *)
(***************************************************************************)
C28_StatsTickLeavesProcessingStateAlone ==
    [][(pc = "stats" /\ pc' = "select") =>
          UNCHANGED << lastBlock, blocksProcessed, stats, v2PoolCache, v3PoolCache >>]_vars

\* LogStats is about to report counters, profits and caches that are not empty
C28_Witness ==
    /\ pc = "stats"
    /\ statsActive
    /\ lastBlock > 0
    /\ blocksProcessed > 0
    /\ stats.SwapsDetected > 0
    /\ stats.ArbitragesFound > 0
    /\ stats.TotalProfitWei > 0
    /\ stats.TotalNetProfit # 0
    /\ v2PoolCache # EmptyCache
    /\ v3PoolCache # EmptyCache

(***************************************************************************)
(* C29: after any sequence of processed ranges the swaps-seen counter      *)
(* equals the number of swaps decoded in those ranges and the findings     *)
(* counter equals the number of findings handed to LogArbitrage.           *)
(***************************************************************************)
C29_CountersEqualWhatWasProcessed ==
    pc # "pbr_tx" =>
        /\ stats.SwapsDetected = rng.decoded
        /\ stats.ArbitragesFound = rng.forwarded

(***************************************************************************)
(* C30: with OnlyProfitable set, a finding for which IsProfitable is false *)
(* is not handed to LogArbitrage.                                          *)
(***************************************************************************)
C30_OnlyProfitableFindingsAreShown ==
    cfg.OnlyProfitable =>
        \A i \in 1 .. Len(rng.shown) : IsProfitable(rng.shown[i])

(***************************************************************************)
(* C31: a log rejected by the validation of a protocol decoder (fewer than *)
(* 3 topics, a signature that is not the decoder's, or a payload shorter   *)
(* than the protocol minimum) causes no on-chain read call and leaves both *)
(* pool-metadata caches unchanged.                                         *)
(***************************************************************************)
RejectedBy(log, d) ==
    \/ Len(log.Topics) < 3
    \/ log.Topics[1] # (IF d = "uniswap_v2" THEN V2SwapEventSignature
                        ELSE V3SwapEventSignature)
    \/ WordBytes * Len(log.Data) < (IF d = "uniswap_v2" THEN 128 ELSE 160)

C31_RejectedLogTouchesNoPoolMetadata ==
    [][(pcD = "direct" /\ pcD' = "done" /\ RejectedBy(inLog, result'.dec)) =>
          /\ result'.kind = "err"
          /\ UNCHANGED << calls, v2PoolCache, v3PoolCache >>
          /\ lookup'.n = lookup.n]_vars

\* the simple-curve decoder rejected a log with three topics and its own
\* signature for its 96-byte payload: no call was issued, nothing was cached
C31_Witness ==
    /\ pcD = "done"
    /\ result.dec = "uniswap_v2"
    /\ result.kind = "err"
    /\ Len(inLog.Topics) = 3
    /\ inLog.Topics[1] = V2SwapEventSignature
    /\ WordBytes * Len(inLog.Data) = 96
    /\ \A d \in Decoders, p \in Pools, sel \in Selectors : calls[d][p][sel] = 0
    /\ v2PoolCache = EmptyCache
    /\ v3PoolCache = EmptyCache

(***************************************************************************)
(* C32: the watermark never decreases; every tick that processes a range   *)
(* [from, to] has from = previous watermark + 1 and to <= the head seen in *)
(* that tick, and sets the watermark to to >= from, so that the advancing  *)
(* ranges are contiguous and do not overlap.                               *)
(***************************************************************************)
AdvancesContiguously ==
    /\ lastBlock' >= lastBlock
    /\ lastBlock' # lastBlock =>
          /\ fromBlock = lastBlock + 1
          /\ toBlock <= currentBlock
          /\ toBlock >= fromBlock
          /\ lastBlock' = toBlock

\* as stated: in every run
C32_WatermarkAdvancesContiguously ==
    [][pc # "start" => AdvancesContiguously]_vars

\* as amended: in the runs whose watermark is a block number from the start
\* (a configured start block, or a startup head of at least 1)
C32_WatermarkAdvancesContiguouslyFromABlock ==
    [][(pc # "start" /\ (cfg.StartBlock > 0 \/ (startHead.set /\ startHead.val >= 1)))
          => AdvancesContiguously]_vars

\* the second advancing range of a run that started from the head: it begins
\* right above the first one and ends below the head
C32_Witness ==
    /\ cfg.StartBlock = 0
    /\ startHead.set /\ startHead.val >= 1
    /\ pc = "select"
    /\ tick.state = "ok"
    /\ lastBlock = toBlock
    /\ fromBlock = tick.pre + 1
    /\ tick.pre > startHead.val - 1
    /\ toBlock < currentBlock
    /\ blocksProcessed > toBlock - fromBlock + 1

(***************************************************************************)
(* C33: whenever the control loop is idle between ticks, the blocks-       *)
(* processed counter equals the watermark minus the watermark set at       *)
(* initialization (for a startup head of at least 1): each block is        *)
(* counted once, whether its range had logs or not, and only for ranges    *)
(* that advanced the watermark.                                            *)
(***************************************************************************)
C33_BlocksProcessedIsWatermarkProgress ==
    (pc = "select" /\ startHead.set /\ startHead.val >= 1) =>
        blocksProcessed =
            lastBlock - (IF cfg.StartBlock > 0 THEN cfg.StartBlock - 1
                         ELSE startHead.val - 1)

\* idle after a second advancing range, one whose fetches brought no log
C33_Witness ==
    /\ pc = "select"
    /\ startHead.set /\ startHead.val >= 1
    /\ tick.state = "ok"
    /\ tick.completed >= 1
    /\ allLogs = << >>
    /\ blocksProcessed > tick.completed
    /\ lastBlock = toBlock

(***************************************************************************)
(* C34: once the cancellation signal has been raised, Start eventually     *)
(* returns, also when the timers keep firing and the RPC calls keep        *)
(* failing, and it does so after at most the tick that was in progress     *)
(* when the signal arrived: the loop begins no further poll tick and no    *)
(* further statistics emission.                                            *)
(***************************************************************************)
C34_CancelledLoopReturnsAfterCurrentTick ==
    /\ cancelled ~> pc = "stopped"
    /\ [][(cancelled /\ pc = "select") => pc' \in {"select", "stopped"}]_vars

(***************************************************************************)
(* C35: through DetectArbitrage, cross-venue detection yields at most one  *)
(* finding per token-pair group, its legs are the buy leg and the sell leg *)
(* of the group with the lowest log index, and a group whose first buy leg *)
(* and first sell leg are on the same pool yields no finding, even if a    *)
(* profitable buy/sell pair on two pools exists later in the group.        *)
(***************************************************************************)
C35_OnlyTheFirstBuyAndSellLegAreTried ==
    pcA = "done" =>
        \A key \in DOMAIN arbHist.pairSwaps :
            LET buys == BuyLegs(arbHist.pairSwaps[key])
                sells == SellLegs(arbHist.pairSwaps[key])
                found == CrossFor(key)
            IN  /\ Len(found) <= 1
                /\ found # << >> =>
                      /\ buys # {}
                      /\ sells # {}
                      /\ found[1].Path = << Lowest(buys), Lowest(sells) >>
                /\ (buys # {} /\ sells # {} /\ Lowest(buys).Pool = Lowest(sells).Pool)
                      => found = << >>

\* a pair bought and then sold on one pool, and sold later at a profit on
\* another pool: nothing was reported across venues
C35_Witness ==
    /\ pcA = "done"
    /\ CrossFindings = << >>
    /\ \E key \in DOMAIN arbHist.pairSwaps :
          LET buys == BuyLegs(arbHist.pairSwaps[key])
              sells == SellLegs(arbHist.pairSwaps[key])
          IN  /\ buys # {}
              /\ sells # {}
              /\ Lowest(buys).Pool = Lowest(sells).Pool
              /\ \E s \in sells :
                    /\ s.Pool # Lowest(buys).Pool
                    /\ s.LogIndex > Lowest(sells).LogIndex
                    /\ WethReceived(s) > WethSpent(Lowest(buys))

====
